---- MODULE Spec2Model ----
(***************************************************************************)
(* Model of the behavioural simulation core: the A* PathFinder, the        *)
(* attention model and the purchase decision model.                        *)
(*                                                                         *)
(* Numbers.  JavaScript numbers are binary floating point.  A number is    *)
(* modelled as an integer count of 1/Unit, and every arithmetic result is  *)
(* rounded to the nearest value with MantBits significant bits (ties to    *)
(* even), which is the IEEE-754 rule at a narrower mantissa.               *)
(***************************************************************************)
EXTENDS Integers, Sequences, FiniteSets, TLC

\* ---------------------------------------------------------------- bounds
GridW == 3
GridH == 2
MaxObstacles == 2
MantBits == 5
FracBits == 6

\* ------------------------------------------------------- float arithmetic
RECURSIVE Pow2(_)
Pow2(k) == IF k = 0 THEN 1 ELSE 2 * Pow2(k - 1)

Unit == Pow2(FracBits)

Abs(a) == IF a < 0 THEN -a ELSE a

\* nearest integer to p/q (q > 0), ties to even
RoundHalfEven(p, q) ==
    LET f == p \div q
        r == p - f * q
    IN  IF 2 * r < q THEN f
        ELSE IF 2 * r > q THEN f + 1
        ELSE IF f % 2 = 0 THEN f ELSE f + 1

\* least k >= 0 such that |p/q| / 2^k has fewer than MantBits+1 bits
RECURSIVE ExponentOf(_, _, _)
ExponentOf(p, q, k) ==
    IF Abs(p) \div (q * Pow2(k)) < Pow2(MantBits) THEN k
    ELSE ExponentOf(p, q, k + 1)

\* the float nearest to the rational p/q (in units of 1/Unit)
Fl(p, q) ==
    LET k == ExponentOf(p, q, 0)
    IN  RoundHalfEven(p, q * Pow2(k)) * Pow2(k)

FAdd(a, b) == Fl(a + b, 1)
FSub(a, b) == Fl(a - b, 1)
FMul(a, b) == Fl(a * b, Unit)
FDiv(a, b) == Fl(a * Unit, b)
Num(i) == i * Unit
MathFloor(a) == a \div Unit

\* ------------------------------------------------------------------ state
VARIABLES
    gridWidth, gridHeight, cellSize,   \* PathFinder constructor fields
    grid,                              \* grid[x][y] nodes
    obstacles,                         \* the obstacle key set
    pc,                                \* "layout", "idle", "search", "returned"
    openSet, closedSet, startNode, endNode,  \* locals of a running findPath
    query,                             \* arguments of the findPath call
    result,                            \* outcome of the findPath call
    dirty,                             \* the call found node data of an earlier search
    trip,                              \* last coordinate round trip: input and outputs
    attn,                              \* last attention computation over a visible set
    decision,                          \* last pair of purchase probability computations
    call,                              \* last call of a cognitive/POP/queue model entry point
    segmentWeights,                    \* CustomerSegments.segmentWeights
    manager,                           \* AgentManager: agents, spawnTimer, maxAgents
    gameStats,                         \* window.gameStats
    tickDelta                          \* deltaTime * simulationSpeed of every tick

pathVars == <<gridWidth, gridHeight, cellSize, grid, obstacles, pc,
              openSet, closedSet, startNode, endNode, query, result, dirty>>

modelVars == <<call, segmentWeights>>
agentVars == <<manager, gameStats, tickDelta>>
nonPathVars == <<trip, attn, decision, modelVars, agentVars>>
nonCoordVars == <<grid, obstacles, pc, openSet, closedSet, startNode, endNode,
                  query, result, dirty, attn, decision, modelVars, agentVars>>
nonAttnVars == <<pathVars, trip, decision, modelVars, agentVars>>
nonDecisionVars == <<pathVars, trip, attn, modelVars, agentVars>>
nonModelVars == <<pathVars, trip, attn, decision, agentVars>>
nonAgentVars == <<pathVars, trip, attn, decision, modelVars>>
vars == <<pathVars, nonPathVars>>

NoTrip == [kind |-> "none"]
NoAttn == [kind |-> "none"]
NoDecision == [kind |-> "none"]
NoCall == [kind |-> "none"]

\* a JavaScript number that is a ratio of integers, or NaN
NaN == [nan |-> TRUE, num |-> 0, den |-> 1]
Ratio(n, d) == [nan |-> FALSE, num |-> n, den |-> d]

\* the constructor of CustomerSegments: 0.25, 0.35, 0.25, 0.15
Segments == {"senior", "family", "single", "youth"}
CustomerSegmentsNew ==
    segmentWeights = [s \in Segments |->
                        CASE s = "senior" -> Ratio(25, 100)
                          [] s = "family" -> Ratio(35, 100)
                          [] s = "single" -> Ratio(25, 100)
                          [] s = "youth"  -> Ratio(15, 100)]

\* the constructor of AgentManager, with window.gameStats as main.js sets it;
\* times are in tenths of a second
AgentManagerNew ==
    /\ manager = [agents |-> <<>>, spawnTimer |-> 0, spawnInterval |-> 30,
                  maxAgents |-> 10]
    /\ gameStats = [activeCustomers |-> 0, queueLength |-> 0, totalSales |-> 0,
                    completedCustomers |-> 0]

\* no model call made yet, customer segments and agent manager as constructed,
\* no tick run
ModelsNew == call = NoCall /\ CustomerSegmentsNew /\ AgentManagerNew /\ tickDelta = 0
NoNode == <<-9, -9>>
NoQuery == [start |-> <<>>, end |-> <<>>]
NoResult == [status |-> "none", path |-> <<>>]
Returned(p) == [status |-> "returned", path |-> p]
Threw == [status |-> "threw", path |-> <<>>]

Cells == (0 .. gridWidth - 1) \X (0 .. gridHeight - 1)

\* ------------------------------------------------------------- PathFinder
createGrid ==
    [c \in Cells |->
        [walkable |-> TRUE, gCost |-> 0, hCost |-> 0, fCost |-> 0, parent |-> NoNode]]

isValidCoordinate(x, y) ==
    x >= 0 /\ x < gridWidth /\ y >= 0 /\ y < gridHeight

worldToGrid(worldX, worldZ) ==
    [x |-> MathFloor(FAdd(FDiv(worldX, cellSize), FDiv(Num(gridWidth), Num(2)))),
     y |-> MathFloor(FAdd(FDiv(worldZ, cellSize), FDiv(Num(gridHeight), Num(2))))]

gridToWorld(gridX, gridY) ==
    [x |-> FMul(FSub(Num(gridX), FDiv(Num(gridWidth), Num(2))), cellSize),
     z |-> FMul(FSub(Num(gridY), FDiv(Num(gridHeight), Num(2))), cellSize)]

\* mutant: the node fields of the previous search are kept
resetGridSkipped(g) == g

resetGrid(g) ==
    [c \in DOMAIN g |->
        [g[c] EXCEPT !.gCost = 0, !.hCost = 0, !.fCost = 0, !.parent = NoNode]]

\* mutant: only the four orthogonal directions
directionsOrthogonal ==
    << <<-1, 0>>, <<0, -1>>, <<0, 1>>, <<1, 0>> >>

directions ==
    << <<-1, -1>>, <<-1, 0>>, <<-1, 1>>,
       <<0, -1>>,             <<0, 1>>,
       <<1, -1>>,  <<1, 0>>,  <<1, 1>> >>

getNeighbors(node) ==
    LET cand == [i \in 1 .. Len(directions) |->
                    <<node[1] + directions[i][1], node[2] + directions[i][2]>>]
    IN  SelectSeq(cand, LAMBDA c : isValidCoordinate(c[1], c[2]))

\* mutant: a diagonal step costs as much as an orthogonal one
getDistanceEqualSteps(nodeA, nodeB) ==
    LET dx == Abs(nodeA[1] - nodeB[1])
        dy == Abs(nodeA[2] - nodeB[2])
    IN  IF dx > dy THEN 10 * dx ELSE 10 * dy

getDistance(nodeA, nodeB) ==
    LET dx == Abs(nodeA[1] - nodeB[1])
        dy == Abs(nodeA[2] - nodeB[2])
    IN  IF dx > dy THEN 14 * dy + 10 * (dx - dy)
        ELSE 14 * dx + 10 * (dy - dx)

Waypoint(c) ==
    LET w == gridToWorld(c[1], c[2]) IN [x |-> w.x, y |-> 0, z |-> w.z]

\* the cell stepping of hasLineOfSight (the loop and the doubled deltas)
RECURSIVE LineWalk(_, _, _, _, _, _, _, _, _, _)
LineWalk(g, i, n, currentX, currentY, error, dx, dy, x_inc, y_inc) ==
    IF i >= n THEN TRUE
    ELSE IF ~isValidCoordinate(currentX, currentY) \/ ~g[<<currentX, currentY>>].walkable
         THEN FALSE
    ELSE IF error > 0
         THEN LineWalk(g, i + 1, n, currentX + x_inc, currentY, error - dy, dx, dy, x_inc, y_inc)
         ELSE LineWalk(g, i + 1, n, currentX, currentY + y_inc, error + dx, dx, dy, x_inc, y_inc)

LineOfSightWalk(g, gridFrom, gridTo) ==
    LET dx == Abs(gridTo.x - gridFrom.x)
        dy == Abs(gridTo.y - gridFrom.y)
        n == 1 + dx + dy
        x_inc == IF gridTo.x > gridFrom.x THEN 1 ELSE -1
        y_inc == IF gridTo.y > gridFrom.y THEN 1 ELSE -1
    IN  LineWalk(g, 0, n, gridFrom.x, gridFrom.y, dx - dy, 2 * dx, 2 * dy, x_inc, y_inc)

\* hasLineOfSight declares dx and dy with const and then executes "dx *= 2":
\* the assignment raises TypeError before the stepping loop is entered, for
\* every pair of points.
hasLineOfSight(g, from, to) == "TypeError"

\* inner for-loop of smoothPath; 0 stands for an exception leaving the loop
RECURSIVE ScanFarthest(_, _, _, _, _)
ScanFarthest(g, path, current, i, farthest) ==
    IF i > Len(path) THEN farthest
    ELSE LET los == hasLineOfSight(g, path[current], path[i])
         IN  IF los = "TypeError" THEN 0
             ELSE IF los = "true" THEN ScanFarthest(g, path, current, i + 1, i)
             ELSE farthest

RECURSIVE SmoothLoop(_, _, _, _)
SmoothLoop(g, path, current, smoothedPath) ==
    IF current >= Len(path) THEN Returned(smoothedPath)
    ELSE LET farthest == ScanFarthest(g, path, current, current + 2, current + 1)
         IN  IF farthest = 0 THEN Threw
             ELSE SmoothLoop(g, path, farthest, Append(smoothedPath, path[farthest]))

smoothPath(g, path) ==
    IF Len(path) <= 2 THEN Returned(path)
    ELSE SmoothLoop(g, path, 1, <<path[1]>>)

\* the cells from startN to node along the parent links
RECURSIVE ParentChain(_, _, _)
ParentChain(g, node, startN) ==
    IF node = startN THEN <<startN>>
    ELSE Append(ParentChain(g, g[node].parent, startN), node)

\* mutant: the start waypoint is not added
reconstructPathWithoutStart(g, startN, endN) ==
    LET cells == Tail(ParentChain(g, endN, startN))
    IN  smoothPath(g, [i \in 1 .. Len(cells) |-> Waypoint(cells[i])])

reconstructPath(g, startN, endN) ==
    LET cells == ParentChain(g, endN, startN)
    IN  smoothPath(g, [i \in 1 .. Len(cells) |-> Waypoint(cells[i])])

\* lines 120-126: scan of the open set for the node to expand
RECURSIVE SelectFrom(_, _, _, _)
SelectFrom(g, open, i, currentNode) ==
    IF i > Len(open) THEN currentNode
    ELSE IF g[open[i]].fCost < g[currentNode].fCost
            \/ (g[open[i]].fCost = g[currentNode].fCost
                /\ g[open[i]].hCost < g[currentNode].hCost)
         THEN SelectFrom(g, open, i + 1, open[i])
         ELSE SelectFrom(g, open, i + 1, currentNode)

\* mutant: among the nodes tied on fCost and hCost the latest one is taken
SelectNodeLatestTie(g, open) ==
    open[CHOOSE i \in 1 .. Len(open) :
            \A j \in 1 .. Len(open) :
                \/ g[open[j]].fCost > g[open[i]].fCost
                \/ (g[open[j]].fCost = g[open[i]].fCost
                    /\ g[open[j]].hCost > g[open[i]].hCost)
                \/ (g[open[j]].fCost = g[open[i]].fCost
                    /\ g[open[j]].hCost = g[open[i]].hCost /\ j <= i)]

SelectNode(g, open) == SelectFrom(g, open, 2, open[1])

InSeq(s, e) == \E i \in 1 .. Len(s) : s[i] = e

\* mutant: the selected node stays in the open set
RemoveNodeKept(open, node) == open

RemoveNode(open, node) == SelectSeq(open, LAMBDA c : c # node)

ShouldUpdate(newGCost, neighborNode, inOpen) ==
    newGCost < neighborNode.gCost \/ ~inOpen

\* lines 138-155: the loop over the neighbours of currentNode
RECURSIVE RelaxNeighbors(_, _, _, _, _, _)
RelaxNeighbors(st, neighbors, i, currentNode, closed, endN) ==
    IF i > Len(neighbors) THEN st
    ELSE LET neighbor == neighbors[i]
             newGCost == st.grid[currentNode].gCost + getDistance(currentNode, neighbor)
             h == getDistance(neighbor, endN)
         IN  IF ~st.grid[neighbor].walkable \/ neighbor \in closed
             THEN RelaxNeighbors(st, neighbors, i + 1, currentNode, closed, endN)
             ELSE IF ShouldUpdate(newGCost, st.grid[neighbor], InSeq(st.open, neighbor))
             THEN RelaxNeighbors(
                    [grid |-> [st.grid EXCEPT ![neighbor] =
                                  [@ EXCEPT !.gCost = newGCost, !.hCost = h,
                                            !.fCost = newGCost + h,
                                            !.parent = currentNode]],
                     open |-> IF InSeq(st.open, neighbor) THEN st.open
                              ELSE Append(st.open, neighbor)],
                    neighbors, i + 1, currentNode, closed, endN)
             ELSE RelaxNeighbors(st, neighbors, i + 1, currentNode, closed, endN)

\* mutant: the walkable flag of the start cell is not tested
EndpointsUsableStartUnchecked(g, start, end) ==
    /\ isValidCoordinate(start.x, start.y)
    /\ isValidCoordinate(end.x, end.y)
    /\ g[<<end.x, end.y>>].walkable

EndpointsUsable(g, start, end) ==
    /\ isValidCoordinate(start.x, start.y)
    /\ isValidCoordinate(end.x, end.y)
    /\ g[<<start.x, start.y>>].walkable
    /\ g[<<end.x, end.y>>].walkable

\* ---------------------------------------------------------------- actions
\* world points offered to findPath: one point strictly inside every cell of
\* the grid and inside one cell beyond each of its four edges
PointIn(gx, gy) ==
    [x |-> ((2 * gx - gridWidth) * cellSize) \div 2 + cellSize \div 4,
     y |-> 0,
     z |-> ((2 * gy - gridHeight) * cellSize) \div 2 + cellSize \div 4]

QueryPoints ==
    { PointIn(c[1], c[2]) :
        c \in Cells \cup {<<-1, 0>>, <<gridWidth, 0>>, <<0, -1>>, <<0, gridHeight>>} }

\* a PathFinder right after its constructor, nothing computed by the models yet
PathFinderNew ==
    /\ grid = createGrid
    /\ obstacles = {}
    /\ pc = "layout"
    /\ openSet = <<>>
    /\ closedSet = {}
    /\ startNode = NoNode
    /\ endNode = NoNode
    /\ query = NoQuery
    /\ result = NoResult
    /\ dirty = FALSE

PathInit ==
    /\ gridWidth = GridW
    /\ gridHeight = GridH
    /\ cellSize = Num(1)
    /\ PathFinderNew
    /\ trip = NoTrip
    /\ attn = NoAttn
    /\ decision = NoDecision
    /\ ModelsNew

\* setObstacle(x, y, walkable), called while the store lays out its obstacles
SetObstacle(x, y, walkable) ==
    /\ UNCHANGED nonPathVars
    /\ pc = "layout"
    /\ IF isValidCoordinate(x, y)
       THEN /\ grid' = [grid EXCEPT ![<<x, y>>].walkable = walkable]
            /\ obstacles' = IF ~walkable THEN obstacles \cup {<<x, y>>}
                            ELSE obstacles \ {<<x, y>>}
       ELSE UNCHANGED <<grid, obstacles>>
    /\ Cardinality(obstacles') <= MaxObstacles
    /\ UNCHANGED <<gridWidth, gridHeight, cellSize, pc, openSet, closedSet,
                   startNode, endNode, query, result, dirty>>

\* the store is built; agents are created and start to query paths
SetupAgents ==
    /\ UNCHANGED nonPathVars
    /\ pc = "layout"
    /\ pc' = "idle"
    /\ UNCHANGED <<gridWidth, gridHeight, cellSize, grid, obstacles, openSet,
                   closedSet, startNode, endNode, query, result, dirty>>

\* findPath, lines 93-116: validation, reset and seeding of the open set
FindPath(startWorld, endWorld) ==
    /\ UNCHANGED nonPathVars
    /\ pc = "idle"
    /\ query' = [start |-> startWorld, end |-> endWorld]
    /\ dirty' = (grid # resetGrid(grid))
    /\ LET start == worldToGrid(startWorld.x, startWorld.z)
           end == worldToGrid(endWorld.x, endWorld.z)
       IN  IF ~EndpointsUsable(grid, start, end)
           THEN /\ result' = Returned(<<>>)
                /\ pc' = "returned"
                /\ UNCHANGED <<grid, openSet, closedSet, startNode, endNode>>
           ELSE /\ grid' = resetGrid(grid)
                /\ openSet' = <<(<<start.x, start.y>>)>>
                /\ closedSet' = {}
                /\ startNode' = <<start.x, start.y>>
                /\ endNode' = <<end.x, end.y>>
                /\ result' = NoResult
                /\ pc' = "search"
    /\ UNCHANGED <<gridWidth, gridHeight, cellSize, obstacles>>

\* the call returns: its locals go out of scope
ReturnWith(r) ==
    /\ result' = r
    /\ pc' = "returned"
    /\ openSet' = <<>>
    /\ closedSet' = {}
    /\ startNode' = NoNode
    /\ endNode' = NoNode

\* findPath, line 118 false: the open set is exhausted
SearchExhausted ==
    /\ UNCHANGED nonPathVars
    /\ pc = "search"
    /\ openSet = <<>>
    /\ ReturnWith(Returned(<<>>))
    /\ UNCHANGED <<gridWidth, gridHeight, cellSize, grid, obstacles, query, dirty>>

\* findPath, lines 118-134: the selected node is the end node
SearchReachEnd ==
    /\ UNCHANGED nonPathVars
    /\ pc = "search"
    /\ openSet # <<>>
    /\ SelectNode(grid, openSet) = endNode
    /\ ReturnWith(reconstructPath(grid, startNode, endNode))
    /\ UNCHANGED <<gridWidth, gridHeight, cellSize, grid, obstacles, query, dirty>>

\* findPath, lines 118-155: one iteration that expands the selected node
SearchExpand ==
    /\ UNCHANGED nonPathVars
    /\ pc = "search"
    /\ openSet # <<>>
    /\ LET currentNode == SelectNode(grid, openSet)
           closed == closedSet \cup {currentNode}
           st == RelaxNeighbors([grid |-> grid, open |-> RemoveNode(openSet, currentNode)],
                                getNeighbors(currentNode), 1, currentNode, closed, endNode)
       IN  /\ currentNode # endNode
           /\ closedSet' = closed
           /\ grid' = st.grid
           /\ openSet' = st.open
    /\ UNCHANGED <<gridWidth, gridHeight, cellSize, obstacles, pc, startNode,
                   endNode, query, result, dirty>>

\* the caller (CustomerAgent.moveTo) takes the returned path; the arguments
\* and the return value of the call are gone, the node fields stay
TakeResult ==
    /\ UNCHANGED nonPathVars
    /\ pc = "returned"
    /\ pc' = "idle"
    /\ query' = NoQuery
    /\ result' = NoResult
    /\ dirty' = FALSE
    /\ UNCHANGED <<gridWidth, gridHeight, cellSize, grid, obstacles, openSet,
                   closedSet, startNode, endNode>>

PathNext ==
    \/ \E x \in -1 .. gridWidth, y \in -1 .. gridHeight, w \in BOOLEAN : SetObstacle(x, y, w)
    \/ SetupAgents
    \/ \E startWorld \in QueryPoints, endWorld \in QueryPoints :
            FindPath(startWorld, endWorld)
    \/ SearchExhausted
    \/ SearchReachEnd
    \/ SearchExpand
    \/ TakeResult

PathSpec == PathInit /\ [][PathNext]_vars

\* ------------------------------------------------- properties of findPath
\* the cells the arguments of the call map to
QStart == LET c == worldToGrid(query.start.x, query.start.z) IN <<c.x, c.y>>
QEnd == LET c == worldToGrid(query.end.x, query.end.z) IN <<c.x, c.y>>

InGrid(c) == c \in Cells
Blocked(c) == ~grid[c].walkable
BothUsable == InGrid(QStart) /\ InGrid(QEnd) /\ ~Blocked(QStart) /\ ~Blocked(QEnd)

Adjacent8(a, b) == a # b /\ Abs(a[1] - b[1]) <= 1 /\ Abs(a[2] - b[2]) <= 1

RECURSIVE ReachFrom(_)
ReachFrom(S) ==
    LET N == S \cup {c \in Cells : ~Blocked(c) /\ \E d \in S : Adjacent8(c, d)}
    IN  IF N = S THEN S ELSE ReachFrom(N)

Reachable(a, b) == b \in ReachFrom({a})

CellOf(w) == worldToGrid(w.x, w.z)

\* C1: when the start or the end point maps to a cell outside the grid or to a
\* blocked cell, findPath returns the empty sequence at once and raises nothing.
C1_BadEndpointGivesEmptyPath ==
    (query # NoQuery /\ ~BothUsable)
        => (pc = "returned" /\ result = Returned(<<>>))

C1_Witness ==
    /\ pc = "returned"
    /\ InGrid(QStart) /\ InGrid(QEnd)
    /\ (Blocked(QStart) \/ Blocked(QEnd))
    /\ result = Returned(<<>>)

\* C2: for walkable in-range cells with the end reachable from the start,
\* findPath returns normally a non-empty sequence from the start cell's world
\* coordinate to the end cell's.
C2_ReachableGivesPathFromStartToEnd ==
    (pc = "returned" /\ BothUsable /\ Reachable(QStart, QEnd))
        => /\ result.status = "returned"
           /\ Len(result.path) >= 1
           /\ result.path[1] = Waypoint(QStart)
           /\ result.path[Len(result.path)] = Waypoint(QEnd)

\* C3: in every returned sequence no waypoint lies on a blocked cell and no
\* segment between consecutive waypoints steps over a blocked cell, judged
\* by the cell stepping of hasLineOfSight.
C3_NoSegmentOverBlockedCell ==
    (pc = "returned" /\ result.status = "returned")
        => /\ \A i \in 1 .. Len(result.path) :
                LET c == CellOf(result.path[i]) IN ~Blocked(<<c.x, c.y>>)
           /\ \A i \in 1 .. Len(result.path) - 1 :
                LineOfSightWalk(grid, CellOf(result.path[i]), CellOf(result.path[i + 1]))

\* C4: for walkable in-range start and end cells, findPath returns the empty
\* sequence exactly when the end is not reachable from the start through
\* 8-connected walkable cells.
C4_EmptyIffUnreachable ==
    (pc = "returned" /\ BothUsable)
        => (result = Returned(<<>>) <=> ~Reachable(QStart, QEnd))

C4_Witness ==
    /\ pc = "returned"
    /\ BothUsable
    /\ ~Reachable(QStart, QEnd)
    /\ result = Returned(<<>>)

\* findPath run to completion on a grid whose nodes carry no data of an
\* earlier search: the loop of lines 118-158 from a given open and closed set
RECURSIVE SearchRun(_, _, _, _, _)
SearchRun(g, open, closed, startN, endN) ==
    IF open = <<>> THEN [result |-> Returned(<<>>), grid |-> g]
    ELSE LET currentNode == SelectNode(g, open)
             closed1 == closed \cup {currentNode}
         IN  IF currentNode = endN
             THEN [result |-> reconstructPath(g, startN, endN), grid |-> g]
             ELSE LET st == RelaxNeighbors(
                                [grid |-> g, open |-> RemoveNode(open, currentNode)],
                                getNeighbors(currentNode), 1, currentNode, closed1, endN)
                  IN  SearchRun(st.grid, st.open, closed1, startN, endN)

FreshGrid == [c \in Cells |-> [createGrid[c] EXCEPT !.walkable = grid[c].walkable]]

\* C5: with the walkable flags unchanged, the outcome of findPath for given
\* endpoints, and the node data the search leaves behind, are those of the
\* same call on a freshly created grid, whatever searches ran before.
C5_HistoryIndependent ==
    (pc = "returned" /\ BothUsable)
        => LET fresh == SearchRun(FreshGrid, <<QStart>>, {}, QStart, QEnd)
           IN  result = fresh.result /\ grid = fresh.grid

C5_Witness ==
    /\ pc = "returned"
    /\ dirty
    /\ BothUsable
    /\ result.status = "returned"
    /\ Len(result.path) = 2

\* C6: on a grid without blocked cells, findPath between two distinct in-range
\* cells returns exactly the two waypoints (start cell, end cell).
C6_OpenGridGivesTwoWaypoints ==
    (pc = "returned" /\ (\A c \in Cells : ~Blocked(c))
        /\ InGrid(QStart) /\ InGrid(QEnd) /\ QStart # QEnd)
        => result = Returned(<<Waypoint(QStart), Waypoint(QEnd)>>)

\* C7: when start and end map to the same walkable cell, findPath returns
\* exactly one waypoint, that cell's world coordinate; the empty sequence is
\* returned only for an unusable endpoint or an unreachable end.
C7_SameCellGivesOneWaypoint ==
    /\ (pc = "returned" /\ BothUsable /\ QStart = QEnd)
          => result = Returned(<<Waypoint(QStart)>>)
    /\ (pc = "returned" /\ result = Returned(<<>>))
          => (~BothUsable \/ ~Reachable(QStart, QEnd))

C7_Witness ==
    /\ pc = "returned"
    /\ BothUsable
    /\ QStart = QEnd
    /\ result.status = "returned"
    /\ Len(result.path) = 1

\* ------------------------------------------- coordinate conversion probes
MaxCell == 3           \* cells probed lie in -MaxCell .. MaxCell
MaxCoord8 == 12        \* world coordinates probed: k/8, |k| <= MaxCoord8
MaxCellSize8 == 8      \* cell sizes tried: k/8, 1 <= k <= MaxCellSize8

WorldCoords == { k * (Unit \div 8) : k \in -MaxCoord8 .. MaxCoord8 }
CellSizes == { k * (Unit \div 8) : k \in 1 .. MaxCellSize8 }

CoordInit ==
    /\ gridWidth \in 1 .. GridW
    /\ gridHeight \in 1 .. GridH
    /\ cellSize \in CellSizes
    /\ PathFinderNew
    /\ trip = NoTrip
    /\ attn = NoAttn
    /\ decision = NoDecision
    /\ ModelsNew

\* gridToWorld(worldToGrid(worldX, worldZ))
RoundTripWorld(worldX, worldZ) ==
    /\ trip = NoTrip
    /\ LET c == worldToGrid(worldX, worldZ)
       IN  trip' = [kind |-> "world", inX |-> worldX, inZ |-> worldZ,
                    cell |-> c, world |-> gridToWorld(c.x, c.y)]
    /\ UNCHANGED <<gridWidth, gridHeight, cellSize>>
    /\ UNCHANGED nonCoordVars

\* worldToGrid(gridToWorld(gridX, gridY))
RoundTripGrid(gridX, gridY) ==
    /\ trip = NoTrip
    /\ LET w == gridToWorld(gridX, gridY)
       IN  trip' = [kind |-> "cell", inX |-> gridX, inZ |-> gridY,
                    world |-> w, cell |-> worldToGrid(w.x, w.z)]
    /\ UNCHANGED <<gridWidth, gridHeight, cellSize>>
    /\ UNCHANGED nonCoordVars

\* the caller drops the converted coordinates
DropTrip ==
    /\ trip # NoTrip
    /\ trip' = NoTrip
    /\ UNCHANGED <<gridWidth, gridHeight, cellSize>>
    /\ UNCHANGED nonCoordVars

CoordNext ==
    \/ \E worldX \in WorldCoords, worldZ \in WorldCoords : RoundTripWorld(worldX, worldZ)
    \/ \E gridX \in -MaxCell .. MaxCell, gridY \in -MaxCell .. MaxCell : RoundTripGrid(gridX, gridY)
    \/ DropTrip

CoordSpec == CoordInit /\ [][CoordNext]_vars

\* C8: gridToWorld(worldToGrid(x, z)) lies at most one cellSize below (x, z)
\* and never above it on either axis, and worldToGrid(gridToWorld(gx, gy))
\* is (gx, gy) for every integer cell.
C8_RoundTrip ==
    /\ trip.kind = "world" =>
          /\ 0 <= trip.inX - trip.world.x /\ trip.inX - trip.world.x < cellSize
          /\ 0 <= trip.inZ - trip.world.z /\ trip.inZ - trip.world.z < cellSize
    /\ trip.kind = "cell" =>
          trip.cell = [x |-> trip.inX, y |-> trip.inZ]

\* ---------------------------------------------------------- AttentionModel
\* Values are exact rationals held as scaled integers: lighting, visibility,
\* preferences, attribute weights and table entries in tenths; luminance and
\* POP effect in hundredths; colour contrast in 1/255; salience in 1/SalScale;
\* goal match in 1/GoalScale.  Colours are grey levels (r = g = b), for which
\* the colour distance of calculateColorContrast is |item - background| / 255.
\* A field a record lacks is held as 0, "" or the empty function, which "||"
\* treats alike.
MaxVisible == 3

SalScale == 255000
GoalScale == 200
luminanceWeight == 3
colorContrastWeight == 4
popEffectWeight == 3
goalMatchWeight == 2

Min(a, b) == IF a < b THEN a ELSE b
Max(a, b) == IF a > b THEN a ELSE b
Or(a, d) == IF a = 0 THEN d ELSE a

RECURSIVE SumSeq(_)
SumSeq(q) == IF q = <<>> THEN 0 ELSE q[1] + SumSeq(Tail(q))

\* size * lighting * position.visibility, in hundredths
calculateLuminance(item) ==
    LET baseSize == Or(item.size, 1)
        lighting == Or(item.lighting, 7)
        visibility == IF ~item.position.present THEN 10 ELSE item.position.visibility
    IN  baseSize * lighting * visibility

\* in 1/255
calculateColorContrast(item, environment) ==
    LET itemColor == Or(item.color, 128)
        bgColor == Or(environment.backgroundColor, 200)
    IN  Abs(itemColor - bgColor)

typeEffects(popType) ==
    CASE popType = "none" -> 0
      [] popType = "discount" -> 8
      [] popType = "limited" -> 7
      [] popType = "seasonal" -> 6
      [] popType = "character" -> 5
      [] popType = "premium" -> 4
      [] OTHER -> 0

positionEffects(popPosition) ==
    CASE popPosition = "eye-level" -> 10
      [] popPosition = "shelf" -> 8
      [] popPosition = "endcap" -> 12
      [] popPosition = "register" -> 11
      [] popPosition = "floor" -> 6
      [] OTHER -> 8

\* baseEffect * positionMultiplier * popSize, in hundredths
calculatePOPEffect(item) ==
    LET popType == IF item.popType = "" THEN "none" ELSE item.popType
        popSize == Or(item.popSize, 1)
        popPosition == IF item.popPosition = "" THEN "shelf" ELSE item.popPosition
    IN  typeEffects(popType) * positionEffects(popPosition) * popSize

\* in 1/SalScale, clamped to [0, 1]
calculateVisualSalience(item, environment) ==
    LET salience == luminanceWeight * (SalScale \div 1000) * calculateLuminance(item)
                    + colorContrastWeight * (SalScale \div 2550) * calculateColorContrast(item, environment)
                    + popEffectWeight * (SalScale \div 1000) * calculatePOPEffect(item)
    IN  Max(0, Min(SalScale, salience))

categoryRelations(itemCategory) ==
    CASE itemCategory = "snacks" -> {"sweets", "candy", "chocolate", "cookies"}
      [] itemCategory = "sweets" -> {"snacks", "candy", "chocolate"}
      [] itemCategory = "chocolate" -> {"sweets", "candy", "snacks"}
      [] itemCategory = "candy" -> {"sweets", "chocolate", "snacks"}
      [] OTHER -> {}

\* 0.5 or 0, in tenths
calculateCategoryRelevance(itemCategory, shoppingGoals) ==
    IF \E i \in 1 .. Len(shoppingGoals) :
            shoppingGoals[i].category \in categoryRelations(itemCategory)
    THEN 5 ELSE 0

\* mean of preference * attribute over the shared keys, in 1/GoalScale
calculatePersonalPreference(item, customer) ==
    LET shared == DOMAIN item.attributes \cap DOMAIN customer.preferences
        keys == CHOOSE q \in [1 .. Cardinality(shared) -> shared] :
                    \A a \in shared : \E i \in DOMAIN q : q[i] = a
        preferenceScore == SumSeq([i \in DOMAIN keys |->
                                customer.preferences[keys[i]] * item.attributes[keys[i]]])
        attributeCount == Cardinality(shared)
    IN  IF attributeCount > 0
        THEN (preferenceScore * GoalScale) \div (100 * attributeCount)
        ELSE 0

\* directMatch * 0.6 + categoryRelevance * 0.3 + personalPreference * 0.1,
\* in 1/GoalScale
calculateGoalMatch(item, customer) ==
    LET shoppingGoals == customer.shoppingList
        itemCategory == IF item.category = "" THEN "unknown" ELSE item.category
        directMatch == IF \E i \in 1 .. Len(shoppingGoals) :
                              \/ shoppingGoals[i].category = itemCategory
                              \/ shoppingGoals[i].name = item.name
                       THEN 10 ELSE 0
    IN  (directMatch * 6 * GoalScale) \div 100
        + (calculateCategoryRelevance(itemCategory, shoppingGoals) * 3 * GoalScale) \div 100
        + (calculatePersonalPreference(item, customer) * 1) \div 10

\* salience * (1 + goalMatchWeight * goalMatch), in 1/(SalScale * GoalScale)
rawAttentionOf(item, customer) ==
    calculateVisualSalience(item, customer.environment)
        * (GoalScale + goalMatchWeight * calculateGoalMatch(item, customer))

\* mutant: the total leaves out the goal-match factor
totalAttentionSalienceOnly(customer, allItems) ==
    SumSeq([i \in DOMAIN allItems |->
              calculateVisualSalience(allItems[i], customer.environment) * GoalScale])

\* the reduce over allItems
totalAttentionOf(customer, allItems) ==
    SumSeq([i \in DOMAIN allItems |-> rawAttentionOf(allItems[i], customer)])

\* the quotient rawAttention / totalAttention as num/den; 0 is 0/1
calculateAttentionProbability(item, customer, allItems) ==
    LET rawAttention == rawAttentionOf(item, customer)
        totalAttention == totalAttentionOf(customer, allItems)
    IN  IF totalAttention > 0 THEN [num |-> rawAttention, den |-> totalAttention]
        ELSE [num |-> 0, den |-> 1]

NoAttrs == [a \in {} |-> 0]
NoPosition == [present |-> FALSE, height |-> 0, visibility |-> 0]

ItemCatalog ==
    { [name |-> "ChocoBar", category |-> "chocolate", size |-> 2, lighting |-> 10,
       position |-> NoPosition, color |-> 98, popType |-> "discount", popPosition |-> "endcap",
       popSize |-> 0, attributes |-> [a \in {"premium", "sweet"} |-> IF a = "premium" THEN 10 ELSE 4]],
      [name |-> "Gum", category |-> "candy", size |-> 0, lighting |-> 0,
       position |-> NoPosition, color |-> 0, popType |-> "", popPosition |-> "",
       popSize |-> 0, attributes |-> NoAttrs],
      [name |-> "Tea", category |-> "", size |-> 0, lighting |-> 5,
       position |-> [present |-> TRUE, height |-> 10, visibility |-> 5], color |-> 200, popType |-> "mascot",
       popPosition |-> "ceiling", popSize |-> 2, attributes |-> [a \in {"premium"} |-> 5]],
      [name |-> "Backstock", category |-> "storage", size |-> 0, lighting |-> 0,
       position |-> [present |-> TRUE, height |-> 0, visibility |-> 0], color |-> 200, popType |-> "",
       popPosition |-> "", popSize |-> 0, attributes |-> NoAttrs] }

Customers ==
    { [shoppingList |-> << [category |-> "chocolate", name |-> "ChocoBar"] >>,
       preferences |-> [a \in {"premium", "sweet"} |-> IF a = "premium" THEN 5 ELSE 10],
       environment |-> [backgroundColor |-> 0]],
      [shoppingList |-> <<>>,
       preferences |-> NoAttrs,
       environment |-> [backgroundColor |-> 149]],
      [shoppingList |-> << [category |-> "snacks", name |-> "Chips"] >>,
       preferences |-> [a \in {"premium"} |-> 10],
       environment |-> [backgroundColor |-> 200]] }

VisibleSets == UNION { [1 .. n -> ItemCatalog] : n \in 1 .. MaxVisible }

AttnInit ==
    /\ gridWidth = GridW
    /\ gridHeight = GridH
    /\ cellSize = Num(1)
    /\ PathFinderNew
    /\ trip = NoTrip
    /\ attn = NoAttn
    /\ decision = NoDecision
    /\ ModelsNew

\* calculateAttentionProbability for every item of one visible set
ComputeAttention(customer, allItems) ==
    /\ attn = NoAttn
    /\ attn' = [kind |-> "done", customer |-> customer, items |-> allItems,
                probs |-> [i \in DOMAIN allItems |->
                    calculateAttentionProbability(allItems[i], customer, allItems)]]
    /\ UNCHANGED nonAttnVars

\* the caller drops the probabilities
DropAttention ==
    /\ attn # NoAttn
    /\ attn' = NoAttn
    /\ UNCHANGED nonAttnVars

AttnNext ==
    \/ \E customer \in Customers, allItems \in VisibleSets : ComputeAttention(customer, allItems)
    \/ DropAttention

AttnSpec == AttnInit /\ [][AttnNext]_vars

\* the raw attention of an item, computed from the formula of the claim
RawOf(item, customer) ==
    calculateVisualSalience(item, customer.environment)
        * (GoalScale + 2 * calculateGoalMatch(item, customer))

C9_WitnessAllZero ==
    /\ attn.kind = "done"
    /\ Len(attn.items) >= 2
    /\ \A i \in DOMAIN attn.probs : attn.probs[i] = [num |-> 0, den |-> 1]

\* ----------------------------------------------------------- DecisionModel
\* Drift rates and trait levels are held in tenths, thresholds and budget
\* ratios in thousandths, probabilities in 1/ProbScale.
MaxDrift10 == 4        \* drift rates tried: k/10, |k| <= MaxDrift10

ProbScale == 1000
ExpScale == 40000
baseThreshold == 1000
impulseEffect == -300
budgetPressureEffect == 400
timeConstraintEffect == 200

\* remaining budget, item price and planned spending, in currency units
calculateBudgetPressure(customer, item) ==
    LET remainingBudget == Or(customer.remainingBudget, Or(customer.budget, 1000))
        itemPrice == item.price
        plannedSpending == customer.plannedSpending
        budgetUtilization == ((plannedSpending + itemPrice) * 1000) \div remainingBudget
    IN  Max(0, budgetUtilization - 700)

\* in thousandths, floored at 0.1
calculatePurchaseThreshold(customer, item) ==
    LET impulseLevel == customer.impulseLevel
        budgetPressure == calculateBudgetPressure(customer, item)
        timeConstraint == customer.timeConstraint
        threshold == baseThreshold
                     + (impulseEffect * impulseLevel) \div 10
                     + (budgetPressureEffect * budgetPressure) \div 1000
                     + (timeConstraintEffect * timeConstraint) \div 10
    IN  Max(100, threshold)

\* Math.exp(-n/100) in 1/ExpScale, rounded down: exp(-1/10) is 0.90484 and
\* exp(-1/100) is 0.99005, and exp(-(10 q + r)/100) = exp(-q/10) * exp(-r/100)
RECURSIVE ExpTenths(_)
ExpTenths(q) == IF q = 0 THEN ExpScale ELSE (ExpTenths(q - 1) * 22621) \div 25000

RECURSIVE ExpHundredths(_)
ExpHundredths(r) == IF r = 0 THEN ExpScale ELSE (ExpHundredths(r - 1) * 19801) \div 20000

ExpNeg(n) == (ExpTenths(n \div 10) * ExpHundredths(n % 10)) \div ExpScale

\* mutant: a zero drift rate is not cut off
purchaseProbabilityZeroDriftKept(driftRate, threshold) ==
    IF driftRate < 0 THEN 0
    ELSE LET probability == (ProbScale * ExpScale)
                                \div (ExpScale + ExpNeg((driftRate * threshold) \div 50))
         IN  Max(0, Min(ProbScale, probability))

\* lines 1114-1119 of calculatePurchaseProbability: 2 * driftRate * threshold
\* is (driftRate * threshold / 50) / 100
purchaseProbability(driftRate, threshold) ==
    IF driftRate <= 0 THEN 0
    ELSE LET probability == (ProbScale * ExpScale)
                                \div (ExpScale + ExpNeg((driftRate * threshold) \div 50))
         IN  Max(0, Min(ProbScale, probability))

DecisionCustomers ==
    { [impulseLevel |-> 0, timeConstraint |-> 0, remainingBudget |-> 0,
       budget |-> 0, plannedSpending |-> 0],
      [impulseLevel |-> 10, timeConstraint |-> 0, remainingBudget |-> 1000,
       budget |-> 2000, plannedSpending |-> 0],
      [impulseLevel |-> 0, timeConstraint |-> 5, remainingBudget |-> 0,
       budget |-> 2000, plannedSpending |-> 950],
      [impulseLevel |-> 10, timeConstraint |-> 10, remainingBudget |-> 1000,
       budget |-> 0, plannedSpending |-> 250] }

DecisionItems == [price : {0, 700, 950}]

DriftRates == -MaxDrift10 .. MaxDrift10

DecisionInit ==
    /\ gridWidth = GridW
    /\ gridHeight = GridH
    /\ cellSize = Num(1)
    /\ PathFinderNew
    /\ trip = NoTrip
    /\ attn = NoAttn
    /\ decision = NoDecision
    /\ ModelsNew

\* calculatePurchaseProbability for one item and customer at two drift rates
\* (two lists of alternatives): the threshold is the same in both calls
ComparePurchaseProbability(item, customer, driftRate1, driftRate2) ==
    /\ decision = NoDecision
    /\ LET threshold == calculatePurchaseThreshold(customer, item)
       IN  decision' = [kind |-> "done", threshold |-> threshold,
                        drift1 |-> driftRate1, drift2 |-> driftRate2,
                        prob1 |-> purchaseProbability(driftRate1, threshold),
                        prob2 |-> purchaseProbability(driftRate2, threshold)]
    /\ UNCHANGED nonDecisionVars

\* the caller drops the probabilities
DropDecision ==
    /\ decision # NoDecision
    /\ decision' = NoDecision
    /\ UNCHANGED nonDecisionVars

DecisionNext ==
    \/ \E item \in DecisionItems, customer \in DecisionCustomers,
          driftRate1 \in DriftRates, driftRate2 \in DriftRates :
            ComparePurchaseProbability(item, customer, driftRate1, driftRate2)
    \/ DropDecision

DecisionSpec == DecisionInit /\ [][DecisionNext]_vars

\* C10: the purchase probability is exactly 0 whenever the drift rate is <= 0
\* and, for a fixed threshold, never decreases when the drift rate grows,
\* over negative, zero and positive drift rates.
C10_ZeroAtNonPositiveDriftAndMonotone ==
    decision.kind = "done" =>
        /\ (decision.drift1 <= 0 => decision.prob1 = 0)
        /\ (decision.drift2 <= 0 => decision.prob2 = 0)
        /\ (decision.drift1 <= decision.drift2 => decision.prob1 <= decision.prob2)

C10_Witness ==
    /\ decision.kind = "done"
    /\ decision.drift1 = 0
    /\ decision.drift2 > 0
    /\ decision.prob1 = 0
    /\ decision.prob2 > ProbScale \div 2
    /\ decision.prob2 < ProbScale

\* ------------------------------------------- DecisionModel: utilities, NaN
\* Utilities, ratios and probabilities are JavaScript numbers held as
\* thousandths (Ratio(n, 1000)) or NaN; prices and budgets are whole currency
\* units, where 0 stands for a field that is 0 or missing (both are falsy
\* under ||).
Milli(n) == Ratio(n, 1000)

\* a + b, a * b and k * a on thousandths; NaN is contagious
MAdd(a, b) == IF a.nan \/ b.nan THEN NaN ELSE Milli(a.num + b.num)
MMul(a, b) == IF a.nan \/ b.nan THEN NaN ELSE Milli((a.num * b.num) \div 1000)
MScale(k, a) == IF a.nan THEN NaN ELSE Milli(k * a.num)

\* a / b for whole numbers a >= 0 and b >= 0 where b = 0 only if a = 0: 0 / 0 is NaN
MDiv(a, b) == IF b = 0 THEN NaN ELSE Milli((a * 1000) \div b)

\* Math.max(...list) over JavaScript numbers: NaN if any element is NaN
RECURSIVE MathMaxOver(_, _)
MathMaxOver(list, i) ==
    IF i = Len(list) THEN list[i]
    ELSE LET rest == MathMaxOver(list, i + 1)
         IN  IF list[i].nan \/ rest.nan THEN NaN
             ELSE IF list[i].num >= rest.num THEN list[i] ELSE rest

\* Math.log(x / 1000) in thousandths for x >= 1000: halving down to [1, 2),
\* then 2 (z + z^3 / 3 + z^5 / 5) with z = (m - 1) / (m + 1)
RECURSIVE MathLog(_)
MathLog(x) ==
    IF x >= 2000 THEN 693 + MathLog(x \div 2)
    ELSE LET z  == ((x - 1000) * 1000) \div (x + 1000)
             z2 == (z * z) \div 1000
             z3 == (z2 * z) \div 1000
             z5 == (z3 * z2) \div 1000
         IN  2 * z + (2 * z3) \div 3 + (2 * z5) \div 5

\* map[key] || default
Lookup(map, key, default) ==
    IF key \in DOMAIN map /\ map[key] # 0 THEN map[key] ELSE default

calculatePriceUtility(item, customer) ==
    LET price == Or(item.price, 0)
        referencePrice == Or(customer.referencePrice, Or(item.referencePrice, price))
        budget == Or(customer.budget, 1000)
        priceRatio == MDiv(price, referencePrice)
        budgetRatio == (price * 1000) \div budget
        priceUtility ==
            IF priceRatio.nan THEN NaN          \* NaN < 1 is false: -2 * Math.log(NaN)
            ELSE IF priceRatio.num < 1000 THEN Milli(MathLog(2000 - priceRatio.num))
            ELSE Milli(-2 * MathLog(priceRatio.num))
    IN  IF budgetRatio > 500
        THEN MMul(priceUtility, Milli((1000 - budgetRatio) * 2))
        ELSE priceUtility

calculateBrandUtility(item, customer) ==
    LET brand == item.brand
        preference == Lookup(customer.brandPreferences, brand, 0)
        familiarity == Lookup(customer.brandFamiliarity, brand, 500)
    IN  Milli((preference * familiarity) \div 1000)

calculateHabitUtility(item, customer) ==
    LET purchaseHistory == customer.purchaseHistory
        itemId == item.id
        purchaseCount == Cardinality({i \in DOMAIN purchaseHistory :
                                        purchaseHistory[i] = itemId})
        totalPurchases == Len(purchaseHistory)
        habitStrength == IF totalPurchases > 0
                         THEN (purchaseCount * 1000) \div totalPurchases ELSE 0
    IN  Milli(MathLog(1000 + habitStrength * 10))

\* customer.socialContext.companions is absent or a list of preference maps;
\* customer.statusSensitivity is absent or a number
calculateSocialUtility(item, customer) ==
    LET companions == customer.companions
        companionPreference ==
            MDiv(SumSeq([i \in DOMAIN companions.list |->
                            Lookup(companions.list[i], item.category, 0)]),
                 Len(companions.list))
        afterCompanions ==
            IF companions.present
            THEN MAdd(Milli(0), MMul(companionPreference, Milli(500)))
            ELSE Milli(0)
        statusSensitivity ==
            IF customer.statusSensitivity.present
            THEN Milli(customer.statusSensitivity.value) ELSE NaN  \* undefined * n
        afterStatus ==
            IF item.statusSymbol # 0
            THEN MAdd(afterCompanions, MMul(statusSensitivity, Milli(item.statusSymbol)))
            ELSE afterCompanions
    IN  IF customer.giftPurpose /\ item.giftAppeal # 0
        THEN MAdd(afterStatus, Milli(item.giftAppeal))
        ELSE afterStatus

\* the weights -0.5, 0.3, 0.4, 0.2 in tenths; ten times the utility
calculateUtilityTimes10(item, customer) ==
    MAdd(MAdd(MScale(-5, calculatePriceUtility(item, customer)),
              MScale(3, calculateBrandUtility(item, customer))),
         MAdd(MScale(4, calculateHabitUtility(item, customer)),
              MScale(2, calculateSocialUtility(item, customer))))

\* (itemUtility - bestAlternativeUtility) / 0.1
calculateDriftRate(item, customer, alternatives) ==
    LET itemUtility == calculateUtilityTimes10(item, customer)
        bestAlternativeUtility ==
            IF Len(alternatives) > 0
            THEN MathMaxOver([i \in DOMAIN alternatives |->
                                calculateUtilityTimes10(alternatives[i], customer)], 1)
            ELSE Milli(0)
    IN  MAdd(itemUtility, MScale(-1, bestAlternativeUtility))

\* Math.exp(-n/100) in 1/ExpScale for any n >= 0: exp(-1) is 0.36788, and
\* below exp(-12) the value is 0 at this scale
RECURSIVE ExpUnits(_)
ExpUnits(u) == IF u = 0 THEN ExpScale ELSE (ExpUnits(u - 1) * 14715) \div ExpScale

ExpNegWide(n) ==
    IF n >= 1200 THEN 0
    ELSE (ExpUnits(n \div 100) * ExpNeg(n % 100)) \div ExpScale

\* the drift rate and the result are thousandths or NaN; NaN <= 0 is false,
\* and Math.max(0, Math.min(1, NaN)) is NaN
calculatePurchaseProbability(item, customer, alternatives) ==
    LET driftRate == calculateDriftRate(item, customer, alternatives)
        threshold == calculatePurchaseThreshold(customer, item)
    IN  IF driftRate.nan THEN NaN
        ELSE IF driftRate.num <= 0 THEN Milli(0)
        ELSE LET probability ==
                    (ProbScale * ExpScale)
                        \div (ExpScale + ExpNegWide((driftRate.num * threshold) \div 5000))
             IN  Milli(Max(0, Min(ProbScale, probability)))

NoCompanions == [present |-> FALSE, list |-> <<>>]
Companions(list) == [present |-> TRUE, list |-> list]
NoSensitivity == [present |-> FALSE, value |-> 0]
Sensitivity(v) == [present |-> TRUE, value |-> v]

\* items on sale: a chocolate with a list price, a free sample without any
\* price field, a status-symbol gift box, a discounted gum
PurchaseItems ==
    { [id |-> "choco", brand |-> "lotte", category |-> "chocolate", price |-> 400,
       referencePrice |-> 400, statusSymbol |-> 0, giftAppeal |-> 0],
      [id |-> "sample", brand |-> "unknown", category |-> "candy", price |-> 0,
       referencePrice |-> 0, statusSymbol |-> 0, giftAppeal |-> 0],
      [id |-> "giftbox", brand |-> "meiji", category |-> "chocolate", price |-> 800,
       referencePrice |-> 1000, statusSymbol |-> 500, giftAppeal |-> 300],
      [id |-> "gum", brand |-> "lotte", category |-> "gum", price |-> 100,
       referencePrice |-> 200, statusSymbol |-> 0, giftAppeal |-> 0] }

PurchaseCustomers ==
    [ impulseLevel : {2}, timeConstraint : {0}, remainingBudget : {0},
      plannedSpending : {0},
      budget : {0, 1000},
      referencePrice : {0, 500},
      brandPreferences : {[b \in {"lotte"} |-> 800]},
      brandFamiliarity : {[b \in {} |-> 0]},
      purchaseHistory : {<<>>, <<"gum", "choco", "gum", "tea">>},
      companions : {NoCompanions, Companions(<<>>),
                    Companions(<<[c \in {"chocolate"} |-> 600]>>)},
      statusSensitivity : {NoSensitivity, Sensitivity(600)},
      giftPurpose : BOOLEAN ]

AlternativeLists ==
    {<<>>} \cup {<<alt>> : alt \in {i \in PurchaseItems : i.id \in {"gum", "sample"}}}

ModelInit ==
    /\ gridWidth = GridW
    /\ gridHeight = GridH
    /\ cellSize = Num(1)
    /\ PathFinderNew
    /\ trip = NoTrip
    /\ attn = NoAttn
    /\ decision = NoDecision
    /\ ModelsNew

\* DecisionModel.calculatePurchaseProbability(item, customer, alternatives)
CalculatePurchaseProbability(item, customer, alternatives) ==
    /\ call = NoCall
    /\ call' = [kind |-> "calculatePurchaseProbability",
                item |-> item, customer |-> customer, alternatives |-> alternatives,
                result |-> calculatePurchaseProbability(item, customer, alternatives)]
    /\ UNCHANGED <<nonModelVars, segmentWeights>>

\* the caller drops the returned value
DropCall ==
    /\ call # NoCall
    /\ call' = NoCall
    /\ UNCHANGED <<nonModelVars, segmentWeights>>

\* C11: calculatePurchaseProbability returns a number in [0, 1], never NaN,
\* for every item, shopper and alternatives list, including an item with no
\* price and no reference price, a shopper with an empty companions list and
\* a status-symbol item for a shopper without statusSensitivity.
C11_PurchaseProbabilityWellDefined ==
    call.kind = "calculatePurchaseProbability" =>
        /\ ~call.result.nan
        /\ call.result.num >= 0
        /\ call.result.num <= call.result.den

\* ---------------------------------------------------------------- QueueModel
\* Times, stresses and probabilities are thousandths; a customer field that
\* is read under || holds 0 when it is 0 or missing.
MaxQueue == 4          \* queue lengths tried: 0 .. MaxQueue

patienceThreshold == 10000
crowdingEffect == 50
alternativeAttractiveness == 300

\* Math.sqrt(n) in thousandths, rounded down, for a whole number n
MathSqrt(n) == CHOOSE r \in 0 .. 1000 * (n + 1) :
                  r * r <= n * 1000000 /\ (r + 1) * (r + 1) > n * 1000000

estimateWaitingTime(queueLength) ==
    LET baseWaitTime == queueLength * 2000
        variabilityEffect == (500 * MathSqrt(queueLength)) \div 1000
    IN  baseWaitTime + variabilityEffect

calculateCrowdingStress(queueLength, customer) ==
    LET crowdingTolerance == Or(customer.crowdingTolerance, 1000)
        personalSpace == Or(customer.personalSpaceNeed, 1000)
        crowdingLevel == queueLength * 100
        stressLevel == (crowdingLevel * personalSpace) \div crowdingTolerance
    IN  (stressLevel * crowdingEffect) \div 1000

calculateBalkingProbability(queueLength, customer) ==
    LET personalPatience == Or(customer.patience, patienceThreshold)
        waitingTime == estimateWaitingTime(queueLength)
        crowdingStress == calculateCrowdingStress(queueLength, customer)
        adjustedWaitTime == waitingTime + crowdingStress
        balkingProb == 1000 - (1000 * ExpNegWide((adjustedWaitTime * 100)
                                                    \div personalPatience)) \div ExpScale
    IN  Milli(Max(0, Min(1000, balkingProb)))

\* alt.distance is in tenths; alt.expectedQueueLength and
\* customer.travelCostSensitivity are absent or a number; Math.max(0, NaN)
\* is NaN
evaluateAlternatives(customer, currentStore) ==
    LET alternatives == customer.knownAlternatives
        value(alt) ==
            LET travelCost ==
                    IF customer.travelCostSensitivity.present
                    THEN Milli((alt.distance * customer.travelCostSensitivity.value) \div 10)
                    ELSE NaN
                expectedWaitTime ==
                    IF alt.expectedQueueLength.present
                    THEN Milli(alt.expectedQueueLength.value * 2000)
                    ELSE NaN
                productAvailability == Or(alt.productAvailability, 900)
            IN  MAdd(MAdd(Milli(productAvailability), MScale(-1, travelCost)),
                     MScale(-1, MMul(expectedWaitTime, Milli(100))))
        alternativeValues == [i \in DOMAIN alternatives |-> value(alternatives[i])]
        bestAlternative == MathMaxOver(alternativeValues, 1)
        currentValue == Milli(1000 - currentStore.queueLength * 100)
        difference == MAdd(bestAlternative, MScale(-1, currentValue))
    IN  IF Len(alternatives) = 0 THEN Milli(0)
        ELSE IF difference.nan THEN NaN
        ELSE Milli(Max(0, difference.num))

\* customer.timeRemaining is absent (-1) or whole minutes; Math.min(1, NaN) is NaN
calculateOverallExitProbability(customer, currentSituation) ==
    LET queueBalkingProb ==
            calculateBalkingProbability(currentSituation.queueLength, customer)
        alternativeValue == evaluateAlternatives(customer, currentSituation)
        timeConstraintPressure ==
            IF customer.timeRemaining >= 0 /\ customer.timeRemaining < 10 THEN 300 ELSE 0
        sum == MAdd(MAdd(queueBalkingProb,
                         MMul(alternativeValue, Milli(alternativeAttractiveness))),
                    Milli(timeConstraintPressure))
    IN  IF sum.nan THEN NaN ELSE Milli(Min(1000, sum.num))

NoNumber == [present |-> FALSE, value |-> 0]
Number(v) == [present |-> TRUE, value |-> v]

KnownAlternatives ==
    { [distance |-> 5, expectedQueueLength |-> Number(0), productAvailability |-> 0],
      [distance |-> 20, expectedQueueLength |-> Number(2), productAvailability |-> 1000],
      [distance |-> 5, expectedQueueLength |-> NoNumber, productAvailability |-> 950] }

QueueCustomers ==
    [ patience : {0, 5000, 20000},
      crowdingTolerance : {0, 500},
      personalSpaceNeed : {0},
      knownAlternatives : {<<>>} \cup {<<a>> : a \in KnownAlternatives}
                          \cup {<<a, b>> : a \in {a \in KnownAlternatives : a.distance = 5},
                                           b \in {b \in KnownAlternatives : b.distance = 20}},
      travelCostSensitivity : {NoNumber, Number(100)},
      timeRemaining : {-1, 5, 30} ]

\* QueueModel.calculateOverallExitProbability(customer, currentSituation)
CalculateOverallExitProbability(customer, currentSituation) ==
    /\ call = NoCall
    /\ call' = [kind |-> "calculateOverallExitProbability",
                customer |-> customer, currentSituation |-> currentSituation,
                balking |-> calculateBalkingProbability(currentSituation.queueLength,
                                                        customer),
                result |-> calculateOverallExitProbability(customer, currentSituation)]
    /\ UNCHANGED <<nonModelVars, segmentWeights>>

\* C12: calculateOverallExitProbability, and calculateBalkingProbability
\* inside it, return a number in [0, 1] for every shopper and queue state,
\* including patience 0 and a shopper with known alternatives but no
\* travelCostSensitivity, or alternatives without expectedQueueLength.
C12_ExitProbabilityWellDefined ==
    call.kind = "calculateOverallExitProbability" =>
        /\ ~call.balking.nan
        /\ call.balking.num >= 0 /\ call.balking.num <= call.balking.den
        /\ ~call.result.nan
        /\ call.result.num >= 0 /\ call.result.num <= call.result.den

\* ------------------------------------------------------- POPEffectCalculator
\* Attention values, multipliers and traits are thousandths or NaN.
MaxDays == 30          \* days since deployment tried: 0 and MaxDays
MaxCompeting == 3      \* competing POP counts tried: 0 and MaxCompeting
MaxExposure == 5       \* earlier exposures tried: 0 and MaxExposure

baselineAttention == 300
maxAttentionBoost == 2500

\* a property read that found nothing, or a definition object
Undefined == [defined |-> FALSE, baseAttention |-> NoNumber,
              psychologicalMechanisms |-> <<>>]
PopDefinition(baseAttention, mechanisms) ==
    [defined |-> TRUE, baseAttention |-> Number(baseAttention),
     psychologicalMechanisms |-> mechanisms]

\* keys every object literal inherits from Object.prototype; reading one
\* yields a function, which is truthy and has none of the table's fields
InheritedKeys == {"constructor", "toString"}
InheritedValue == [defined |-> TRUE, baseAttention |-> NoNumber,
                   psychologicalMechanisms |-> <<>>]

\* POPTypeDefinitions.types[typeId]
getPOPType(typeId) ==
    CASE typeId = "discount" ->
            PopDefinition(800, <<"loss_aversion", "scarcity", "anchoring">>)
      [] typeId = "limited" ->
            PopDefinition(700, <<"scarcity", "fomo", "exclusivity">>)
      [] typeId = "character" ->
            PopDefinition(600, <<"parasocial_relationship", "nostalgia", "identification">>)
      [] typeId = "celebrity" ->
            PopDefinition(500, <<"social_proof", "halo_effect", "aspiration">>)
      [] typeId = "health" ->
            PopDefinition(400, <<"health_consciousness", "rational_appeal", "guilt_reduction">>)
      [] typeId = "premium" ->
            PopDefinition(600, <<"status_signaling", "quality_heuristic", "self_reward">>)
      [] typeId \in InheritedKeys -> InheritedValue
      [] OTHER -> Undefined

\* Math.pow(size, 0.3) for the sizes tried
MathPow03(size) ==
    CASE size = 1 -> 1000
      [] size = 2 -> 1231
      [] size = 3 -> 1390
      [] size = 4 -> 1516

\* popConfig.size is a whole number and popConfig.colorIntensity is in
\* thousandths; 0 stands for 0 or missing
calculateVisualImpact(popConfig) ==
    LET size == Or(popConfig.size, 1)
        colorIntensity == Or(popConfig.colorIntensity, 500)
        afterSize == (1000 * MathPow03(size)) \div 1000
        afterColor == (afterSize * (1000 + (colorIntensity * 400) \div 1000)) \div 1000
        afterAnimated == IF popConfig.animated
                         THEN (afterColor * 1300) \div 1000 ELSE afterColor
    IN  IF popConfig.threedimensional
        THEN (afterAnimated * 1200) \div 1000 ELSE afterAnimated

\* positionEffects[position]
positionEffect(position) ==
    CASE position = "eye_level" -> Number(1000)
      [] position = "above_eye" -> Number(800)
      [] position = "below_eye" -> Number(700)
      [] position = "endcap" -> Number(1200)
      [] position = "register" -> Number(1100)
      [] position = "entrance" -> Number(900)
      [] position = "aisle_end" -> Number(1100)
      [] position = "shelf_edge" -> Number(900)
      [] OTHER -> NoNumber

\* an inherited key yields a function, which || keeps and *= turns into NaN
calculatePositionEffect(position, customer) ==
    LET found == positionEffect(position)
        effect == IF position \in InheritedKeys THEN NaN
                  ELSE IF found.present THEN Milli(found.value) ELSE Milli(800)
        senior == IF customer.segment = "senior"
                  THEN (IF position = "below_eye" THEN MMul(effect, Milli(1200))
                        ELSE IF position = "above_eye" THEN MMul(effect, Milli(700))
                        ELSE effect)
                  ELSE effect
    IN  IF customer.segment = "youth" /\ position = "above_eye"
        THEN MMul(senior, Milli(1100)) ELSE senior

\* what one mechanism adds to the match, given the attribute set of the product
matchOf(mechanism, productAttributes) ==
    CASE mechanism = "scarcity" ->
            IF {"limited", "seasonal"} \cap productAttributes # {} THEN 300 ELSE 0
      [] mechanism = "quality_heuristic" ->
            IF {"premium", "sophisticated"} \cap productAttributes # {} THEN 300 ELSE 0
      [] mechanism = "health_consciousness" ->
            IF {"health", "functional"} \cap productAttributes # {} THEN 400 ELSE 0
      [] mechanism = "social_proof" ->
            IF {"popular", "trending"} \cap productAttributes # {} THEN 200 ELSE 0
      [] mechanism = "nostalgia" ->
            IF {"traditional", "familiar"} \cap productAttributes # {} THEN 300 ELSE 0
      [] OTHER -> 0

calculateProductMatch(product, popDefinition) ==
    LET popMechanisms == popDefinition.psychologicalMechanisms
        match == 500 + SumSeq([i \in DOMAIN popMechanisms |->
                                  matchOf(popMechanisms[i], product.attributes)])
    IN  Min(match, 2000)

\* the multiplier of one mechanism; a trait of 0 reads as 0.5 under ||
mechanismEffect(mechanism, customer) ==
    CASE mechanism = "loss_aversion" ->
            1000 + (Or(customer.psychographics.price, 500) * 500) \div 1000
      [] mechanism = "scarcity" ->
            1000 + (Or(customer.impulseLevel, 500) * 400) \div 1000
      [] mechanism = "social_proof" ->
            1000 + (Or(customer.behavioral.statusSensitivity, 500) * 300) \div 1000
      [] mechanism = "health_consciousness" ->
            1000 + (Or(customer.psychographics.safety, 500) * 600) \div 1000
      [] mechanism = "quality_heuristic" ->
            1000 + (Or(customer.psychographics.qualityPursuit, 500) * 400) \div 1000
      [] OTHER -> 1000

RECURSIVE PsychologicalProduct(_, _, _)
PsychologicalProduct(mechanisms, i, customer) ==
    IF i > Len(mechanisms) THEN 1000
    ELSE (mechanismEffect(mechanisms[i], customer)
            * PsychologicalProduct(mechanisms, i + 1, customer)) \div 1000

calculatePsychologicalEffect(popDefinition, customer) ==
    PsychologicalProduct(popDefinition.psychologicalMechanisms, 1, customer)

\* the decay rates 0.05, 0.02 and 0.1 are 5, 2 and 10 hundredths
applyDecayFactors(popConfig, customer) ==
    LET daysSinceDeployment == popConfig.daysSinceDeployment
        exposureCount == Lookup(customer.popExposureHistory, popConfig.type, 0)
        competingPOPCount == popConfig.competingPOPCount
        novelty == (1000 * ExpNegWide(5 * daysSinceDeployment)) \div ExpScale
        frequency == (novelty * ExpNegWide(2 * exposureCount)) \div ExpScale
        decay == (frequency * ExpNegWide(10 * competingPOPCount)) \div ExpScale
    IN  Max(decay, 100)

\* attention before the final Math.min
attentionProduct(product, popConfig, customer) ==
    LET popDefinition == getPOPType(popConfig.type)
        attention == IF popDefinition.baseAttention.present
                     THEN Milli(popDefinition.baseAttention.value)
                     ELSE NaN                     \* undefined *= n
    IN  MMul(MMul(MMul(MMul(MMul(attention,
                                 Milli(calculateVisualImpact(popConfig))),
                            calculatePositionEffect(popConfig.position, customer)),
                       Milli(calculateProductMatch(product, popDefinition))),
                  Milli(calculatePsychologicalEffect(popDefinition, customer))),
             Milli(applyDecayFactors(popConfig, customer)))

\* Math.min(NaN, 2.5) is NaN
calculateBaseEffect(product, popConfig, customer) ==
    LET attention == attentionProduct(product, popConfig, customer)
    IN  IF ~getPOPType(popConfig.type).defined THEN Milli(baselineAttention)
        ELSE IF attention.nan THEN NaN
        ELSE Milli(Min(attention.num, maxAttentionBoost))
PopTypeIds == {"discount", "health", "celebrity", "hologram", "constructor"}

PopConfigs ==
    { [type |-> t, size |-> s, colorIntensity |-> c, animated |-> b,
       threedimensional |-> b, position |-> p,
       daysSinceDeployment |-> k * MaxDays, competingPOPCount |-> k * MaxCompeting] :
        t \in PopTypeIds, s \in {1, 4}, c \in {0, 1000}, b \in BOOLEAN,
        p \in {"eye_level", "above_eye", "ceiling"}, k \in {0, 1} }

PopProducts ==
    { [id |-> "ghana_milk", category |-> "chocolate", attributes |-> {}],
      [id |-> "xylitol_gum", category |-> "gum",
       attributes |-> {"limited", "health", "popular"}] }

PopCustomer(segment, price, impulseLevel, exposureCount) ==
    [segment |-> segment,
     psychographics |-> [price |-> price, safety |-> 700, qualityPursuit |-> 700,
                         hedonic |-> 600],
     impulseLevel |-> impulseLevel,
     behavioral |-> [statusSensitivity |-> 300, crowdingTolerance |-> 0],
     popExposureHistory |-> [t \in {"discount"} |-> exposureCount],
     snackPreferences |-> [k \in {} |-> 0]]

PopCustomers ==
    { PopCustomer("senior", 0, 0, 0), PopCustomer("senior", 400, 1000, 0),
      PopCustomer("youth", 0, 1000, MaxExposure), PopCustomer("youth", 400, 0, 0),
      PopCustomer("tourist", 0, 0, 0), PopCustomer("tourist", 400, 1000, MaxExposure) }

\* POPEffectCalculator.calculateBaseEffect(product, popConfig, customer)
CalculateBaseEffect(product, popConfig, customer) ==
    /\ call = NoCall
    /\ call' = [kind |-> "calculateBaseEffect",
                product |-> product, popConfig |-> popConfig, customer |-> customer,
                positionEffect |-> calculatePositionEffect(popConfig.position, customer),
                result |-> calculateBaseEffect(product, popConfig, customer)]
    /\ UNCHANGED <<nonModelVars, segmentWeights>>

\* C13: calculateBaseEffect returns a value in [0, 2.5] for every product,
\* POP configuration with non-negative size, colour intensity, day and
\* competitor counts, and shopper with traits in [0, 1].
C13_BaseEffectInRange ==
    call.kind = "calculateBaseEffect" =>
        /\ ~call.result.nan
        /\ call.result.num >= 0
        /\ call.result.num <= maxAttentionBoost

\* ---------------------------------------------------- EnvironmentalModifiers
\* Table values, relevances and effects are thousandths. A table is a
\* function from keys to values; EmptyTable is what a missing outer key gives.
EmptyTable == [k \in {} |-> 0]

weatherEffects(weather) ==
    CASE weather = "sunny" -> ("chocolate" :> 800 @@ "ice" :> 1300 @@ "cold_drinks" :> 1200)
      [] weather = "rainy" ->
            ("chocolate" :> 1200 @@ "warm_drinks" :> 1300 @@ "comfort_food" :> 1200)
      [] weather = "cloudy" -> ("neutral" :> 1000)
      [] weather = "hot" -> ("chocolate" :> 700 @@ "ice" :> 1400 @@ "cold_drinks" :> 1300)
      [] weather = "cold" ->
            ("chocolate" :> 1300 @@ "warm_drinks" :> 1400 @@ "comfort_food" :> 1300)
      [] OTHER -> EmptyTable

timeEffects(timeOfDay) ==
    CASE timeOfDay = "morning" ->
            ("functional" :> 1200 @@ "energy" :> 1300 @@ "convenient" :> 1200)
      [] timeOfDay = "afternoon" -> ("indulgent" :> 1100 @@ "social" :> 1100)
      [] timeOfDay = "evening" -> ("comfort" :> 1200 @@ "premium" :> 1100 @@ "gift" :> 1200)
      [] timeOfDay = "night" -> ("indulgent" :> 1300 @@ "comfort" :> 1300)
      [] OTHER -> EmptyTable

seasonalEffects(season) ==
    CASE season = "spring" -> ("fresh" :> 1200 @@ "light" :> 1100 @@ "seasonal" :> 1300)
      [] season = "summer" -> ("cold" :> 1300 @@ "refreshing" :> 1200 @@ "ice" :> 1400)
      [] season = "autumn" -> ("traditional" :> 1200 @@ "warm" :> 1100 @@ "seasonal" :> 1300)
      [] season = "winter" ->
            ("warm" :> 1300 @@ "comfort" :> 1300 @@ "premium" :> 1200 @@ "gift" :> 1400)
      [] OTHER -> EmptyTable

\* 1 + (value - 1) * relevance
weightedModifier(value, relevance) == 1000 + ((value - 1000) * relevance) \div 1000

\* the largest element of a set of numbers, or least if the set is empty
RECURSIVE MaxOver(_, _)
MaxOver(S, least) ==
    IF S = {} THEN least
    ELSE LET x == CHOOSE y \in S : TRUE
         IN  Max(x, MaxOver(S \ {x}, least))

\* maxModifier starts at 1.0 and only grows
getRelevantModifier(modifiers, customer) ==
    LET matching == {key \in DOMAIN modifiers :
                        Lookup(customer.snackPreferences, key, 0) # 0}
    IN  MaxOver({weightedModifier(modifiers[key], customer.snackPreferences[key]) :
                    key \in matching}, 1000)

\* crowdingLevel is absent or a number; Math.max(0, undefined - t) is NaN
calculateCrowdingEffect(crowdingLevel, customer) ==
    LET tolerance == Or(customer.behavioral.crowdingTolerance, 700)
        crowdingStress == Max(0, crowdingLevel.value - tolerance)
    IN  IF ~crowdingLevel.present THEN NaN
        ELSE Milli((1000 * ExpNegWide(crowdingStress \div 20)) \div ExpScale)

\* the factors apply multiplies in: a table that is not consulted counts as 1.0
applyFactors(environment, customer) ==
    [weather |-> IF environment.weather # ""
                    /\ weatherEffects(environment.weather) # EmptyTable
                 THEN getRelevantModifier(weatherEffects(environment.weather), customer)
                 ELSE 1000,
     timeOfDay |-> IF environment.timeOfDay # ""
                      /\ timeEffects(environment.timeOfDay) # EmptyTable
                   THEN getRelevantModifier(timeEffects(environment.timeOfDay), customer)
                   ELSE 1000,
     season |-> IF environment.season # ""
                   /\ seasonalEffects(environment.season) # EmptyTable
                THEN getRelevantModifier(seasonalEffects(environment.season), customer)
                ELSE 1000,
     crowding |-> calculateCrowdingEffect(environment.crowding, customer)]

\* EnvironmentalModifiers.apply(baseEffect, environment, customer)
apply(baseEffect, environment, customer) ==
    LET f == applyFactors(environment, customer)
    IN  MMul(MMul(MMul(MMul(baseEffect, Milli(f.weather)), Milli(f.timeOfDay)),
                  Milli(f.season)),
             f.crowding)

SnackPreferences ==
    { EmptyTable,
      ("chocolate" :> 500),
      ("chocolate" :> 500 @@ "ice" :> 800 @@ "premium" :> 600),
      ("warm_drinks" :> 1000 @@ "functional" :> 400 @@ "gift" :> 900) }

EnvCustomers ==
    { [PopCustomer("senior", 400, 0, 0) EXCEPT !.snackPreferences = prefs,
                                            !.behavioral.crowdingTolerance = tol] :
        prefs \in SnackPreferences, tol \in {0, 600} }

\* snapshots with the field apply reads (crowding), as a direct caller passes them
Environments ==
    [ weather : {"sunny", "rainy", "foggy", ""},
      timeOfDay : {"morning", "evening", "dusk"},
      season : {"winter", "summer", "monsoon"},
      crowding : {Number(300), Number(900)},
      crowdingLevel : {NoNumber} ]

\* EnvironmentalModifiers.apply(baseEffect, environment, customer)
Apply(baseEffect, environment, customer) ==
    /\ call = NoCall
    /\ call' = [kind |-> "apply", baseEffect |-> baseEffect,
                environment |-> environment, customer |-> customer,
                factors |-> applyFactors(environment, customer),
                result |-> apply(Milli(baseEffect), environment, customer)]
    /\ UNCHANGED <<nonModelVars, segmentWeights>>

\* the highest weighted multiplier among the table entries whose key is in
\* the preference map, 1.0 when no entry matches
HighestWeighted(table, snackPreferences) ==
    LET matching == DOMAIN table \cap DOMAIN snackPreferences
    IN  IF matching = {} THEN 1000
        ELSE MaxOver({weightedModifier(table[key], snackPreferences[key]) :
                        key \in matching}, 0)

\* C16: for each of weather, time of day and season, the factor apply
\* multiplies in equals the highest weighted multiplier
\* 1 + (tableValue - 1) x relevance among the table entries whose key is in
\* the shopper's preference map, and is 1.0 only when no entry matches; it is
\* below 1 when every matching entry has a table value below 1.
C16_FactorIsHighestWeighted ==
    call.kind = "apply" =>
        LET prefs == call.customer.snackPreferences
        IN  /\ call.factors.weather
                  = HighestWeighted(weatherEffects(call.environment.weather), prefs)
            /\ call.factors.timeOfDay
                  = HighestWeighted(timeEffects(call.environment.timeOfDay), prefs)
            /\ call.factors.season
                  = HighestWeighted(seasonalEffects(call.environment.season), prefs)

\* ----------------------------------------------------------- POPEffectsSystem
\* modifiers[segment], an empty table for an unknown segment
getSegmentModifiers(segment) ==
    CASE segment = "senior" ->
            ("discount" :> 1300 @@ "health" :> 1400 @@ "traditional" :> 1500
             @@ "character" :> 300 @@ "celebrity" :> 400 @@ "limited" :> 1100
             @@ "premium" :> 1200)
      [] segment = "family" ->
            ("discount" :> 1400 @@ "character" :> 1300 @@ "familyPack" :> 1500
             @@ "educational" :> 1200 @@ "sharing" :> 1300 @@ "bulk" :> 1400
             @@ "celebrity" :> 700)
      [] segment = "single" ->
            ("premium" :> 1300 @@ "limited" :> 1400 @@ "trend" :> 1300
             @@ "celebrity" :> 1100 @@ "experience" :> 1200 @@ "artisan" :> 1300
             @@ "discount" :> 800)
      [] segment = "youth" ->
            ("character" :> 1500 @@ "trendy" :> 1400 @@ "social" :> 1300
             @@ "colorful" :> 1400 @@ "gaming" :> 1300 @@ "celebrity" :> 1200
             @@ "discount" :> 1200)
      [] OTHER -> EmptyTable

\* popConfig.attributes is the set of attribute flags that are set
calculatePersonalityEffect(customer, popConfig) ==
    LET psycho == customer.psychographics
        popAttributes == popConfig.attributes
        hedonic == IF "hedonic" \in popAttributes
                   THEN 1000 + (psycho.hedonic * 300) \div 1000 ELSE 1000
        quality == IF "quality" \in popAttributes
                   THEN 1000 + (psycho.qualityPursuit * 400) \div 1000 ELSE 1000
        price == IF "priceOriented" \in popAttributes
                 THEN 1000 + (psycho.price * 500) \div 1000 ELSE 1000
        safety == IF "safety" \in popAttributes
                  THEN 1000 + (psycho.safety * 300) \div 1000 ELSE 1000
    IN  (((((hedonic * quality) \div 1000) * price) \div 1000) * safety) \div 1000

calculateSegmentSpecificEffect(baseEffect, customer, popConfig) ==
    LET segmentModifiers == getSegmentModifiers(customer.segment)
        typeMultiplier == Lookup(segmentModifiers, popConfig.type, 1000)
        personalityEffect == calculatePersonalityEffect(customer, popConfig)
    IN  MMul(MMul(baseEffect, Milli(typeMultiplier)), Milli(personalityEffect))

\* POPEffectsSystem.calculatePOPEffect: totalEffect and the breakdown
systemCalculatePOPEffect(product, popConfig, customer, environment) ==
    LET baseEffect == calculateBaseEffect(product, popConfig, customer)
        environmentalEffect == apply(baseEffect, environment, customer)
        segmentEffect == calculateSegmentSpecificEffect(environmentalEffect,
                                                        customer, popConfig)
    IN  [totalEffect |-> segmentEffect,
         base |-> baseEffect,
         environmental |-> MAdd(environmentalEffect, MScale(-1, baseEffect)),
         segment |-> MAdd(segmentEffect, MScale(-1, environmentalEffect))]

\* the popConfig of a POP display on the floor: only its type is set, apart
\* from attribute flags
DisplayConfigs ==
    { [type |-> t, size |-> 0, colorIntensity |-> 0, animated |-> FALSE,
       threedimensional |-> FALSE, position |-> "", daysSinceDeployment |-> 0,
       competingPOPCount |-> 0, attributes |-> a] :
        t \in PopTypeIds, a \in {{}, {"hedonic", "priceOriented"}} }

\* the snapshot EnvironmentalFactorsSystem keeps: its crowding field is
\* crowdingLevel, and it has no field named crowding
CurrentEnvironments ==
    [ weather : {"sunny", "rainy"},
      timeOfDay : {"evening"},
      season : {"winter"},
      crowding : {NoNumber},
      crowdingLevel : {Number(500), Number(900)} ]

\* LotteDashboardApp.calculatePOPInteraction: POPEffectsSystem.calculatePOPEffect
\* on the current environment snapshot
CalculatePOPInteraction(product, popConfig, customer, environment) ==
    /\ call = NoCall
    /\ call' = [kind |-> "calculatePOPEffect",
                product |-> product, popConfig |-> popConfig, customer |-> customer,
                environment |-> environment,
                crowdingFactor |-> applyFactors(environment, customer).crowding,
                typeMultiplier |-> Lookup(getSegmentModifiers(customer.segment),
                                          popConfig.type, 1000),
                result |-> systemCalculatePOPEffect(product, popConfig, customer,
                                                    environment)]
    /\ UNCHANGED <<nonModelVars, segmentWeights>>

\* C17: calculatePOPEffect on the environment snapshot of
\* EnvironmentalFactorsSystem returns a finite numeric totalEffect, and the
\* crowding factor is exactly 1 whenever the snapshot's crowding level does
\* not exceed the shopper's crowding tolerance.
C17_TotalEffectFiniteOnSnapshot ==
    call.kind = "calculatePOPEffect" =>
        /\ ~call.result.totalEffect.nan
        /\ call.environment.crowdingLevel.value
              <= Or(call.customer.behavioral.crowdingTolerance, 700)
           => call.crowdingFactor = Milli(1000)

\* the scenario of C18: a discount POP without visual boosts at eye level,
\* never seen before, on a product with none of the matched attributes
PlainDiscountCall ==
    /\ call.kind = "calculateBaseEffect"
    /\ call.popConfig.type = "discount"
    /\ call.popConfig.size = 1
    /\ call.popConfig.colorIntensity = 0
    /\ ~call.popConfig.animated
    /\ ~call.popConfig.threedimensional
    /\ call.popConfig.position = "eye_level"
    /\ call.popConfig.daysSinceDeployment = 0
    /\ call.popConfig.competingPOPCount = 0
    /\ Lookup(call.customer.popExposureHistory, "discount", 0) = 0
    /\ call.product.attributes = {}

\* 0.8 x 1.0 x 1.0 x 0.5 x (1 + 0.5 x price sensitivity) x (1 + 0.4 x impulse level)
PlainDiscountFormula(customer) ==
    (400 * (((1000 + (500 * customer.psychographics.price) \div 1000)
             * (1000 + (400 * customer.impulseLevel) \div 1000)) \div 1000)) \div 1000

\* C18: for a discount POP with no visual boosts, eye-level position, zero
\* days deployed, exposures and competing POPs, on a product with none of
\* the matched attributes, calculateBaseEffect equals
\* 0.8 x 1.0 x 1.0 x 0.5 x (1 + 0.5 x price sensitivity) x (1 + 0.4 x impulse
\* level), within a tolerance of 0.002.
C18_PlainDiscountFormula ==
    PlainDiscountCall =>
        /\ ~call.result.nan
        /\ call.result.num - PlainDiscountFormula(call.customer) <= 2
        /\ PlainDiscountFormula(call.customer) - call.result.num <= 2

\* ----------------------------------------------------------- CustomerSegments
MaxWeight == 1         \* weights passed to updateSegmentWeights: 0 .. MaxWeight

RECURSIVE GCD(_, _)
GCD(a, b) == IF b = 0 THEN a ELSE GCD(b, a % b)
LCM(a, b) == (a * b) \div GCD(a, b)

\* a / b in lowest terms for whole numbers 0 <= a <= b: 0 / 0 is NaN
Quotient(a, b) ==
    IF b = 0 THEN NaN
    ELSE Ratio(a \div GCD(a, b), b \div GCD(a, b))

\* the argument objects tried: every assignment of weights to some of the
\* four segments
WeightArguments ==
    UNION { [keys -> 0 .. MaxWeight] : keys \in SUBSET Segments }

RECURSIVE SumOver(_, _)
SumOver(f, keys) ==
    IF keys = {} THEN 0
    ELSE LET k == CHOOSE x \in keys : TRUE
         IN  f[k] + SumOver(f, keys \ {k})

\* segmentWeights after updateSegmentWeights(weights)
updateSegmentWeights(weights) ==
    LET total == SumOver(weights, DOMAIN weights)
    IN  [s \in Segments |-> IF s \in DOMAIN weights
                            THEN Quotient(weights[s], total)
                            ELSE segmentWeights[s]]

SegmentInit ==
    /\ gridWidth = GridW
    /\ gridHeight = GridH
    /\ cellSize = Num(1)
    /\ PathFinderNew
    /\ trip = NoTrip
    /\ attn = NoAttn
    /\ decision = NoDecision
    /\ ModelsNew

\* CustomerSegments.updateSegmentWeights(weights)
UpdateSegmentWeights(weights) ==
    /\ segmentWeights' = updateSegmentWeights(weights)
    /\ call' = [kind |-> "updateSegmentWeights", weights |-> weights]
    /\ UNCHANGED nonModelVars

SegmentNext == \E weights \in WeightArguments : UpdateSegmentWeights(weights)

SegmentSpec == SegmentInit /\ [][SegmentNext]_vars

\* the stored weights are all numbers and add up to 1
RECURSIVE LCMOver(_, _)
LCMOver(w, keys) ==
    IF keys = {} THEN 1
    ELSE LET k == CHOOSE x \in keys : TRUE
         IN  LCM(w[k].den, LCMOver(w, keys \ {k}))

WeightsSumToOne(w) ==
    /\ \A s \in Segments : ~w[s].nan /\ w[s].den > 0
    /\ LET common == LCMOver(w, Segments)
       IN  SumOver([s \in Segments |-> w[s].num * (common \div w[s].den)], Segments)
              = common

\* C19: after any call updateSegmentWeights(weights) with non-negative
\* weights, naming all four segments or only some, the sum of the given
\* weights being 0 included, the stored segmentWeights over all segments are
\* well-defined numbers that sum to 1.
C19_WeightsSumToOneAfterUpdate ==
    call.kind = "updateSegmentWeights" => WeightsSumToOne(segmentWeights)

\* ------------------------------------------- customer generation, Math.random
\* Math.random() has no seed: each draw is any value of [0, 1), here one of
\* a few thousandths, whatever the caller did before.
Draws == {0, 500, 999}

\* what generateCustomer of each segment class draws from: the share of
\* female customers, the safety trait and its noise level, the budget range
segmentParameters(segment) ==
    CASE segment = "senior" -> [female |-> 600, safety |-> 900, safetyNoise |-> 100,
                                budgetMin |-> 2000, budgetMax |-> 5000]
      [] segment = "family" -> [female |-> 700, safety |-> 800, safetyNoise |-> 100,
                                budgetMin |-> 3000, budgetMax |-> 8000]
      [] segment = "single" -> [female |-> 500, safety |-> 600, safetyNoise |-> 150,
                                budgetMin |-> 1500, budgetMax |-> 4000]
      [] segment = "youth"  -> [female |-> 500, safety |-> 400, safetyNoise |-> 200,
                                budgetMin |-> 500, budgetMax |-> 2500]

randomInRange(min, max, random) == min + (random * (max - min)) \div 1000

addNoise(value, noiseLevel, random) ==
    LET noise == ((random - 500) * 2 * noiseLevel) \div 1000
    IN  Max(0, Min(1000, value + noise))

\* the customer a segment class generates, reduced to one field of each kind
\* of draw: a thresholded draw (gender), a noisy trait (psychographics.safety)
\* and a ranged value (budget)
segmentGenerateCustomer(segment, randoms) ==
    LET p == segmentParameters(segment)
    IN  [segment |-> segment,
         gender |-> IF randoms[1] < p.female THEN "female" ELSE "male",
         safety |-> addNoise(p.safety, p.safetyNoise, randoms[2]),
         budget |-> randomInRange(p.budgetMin, p.budgetMax, randoms[3])]

NoCustomer == [segment |-> "", gender |-> "", safety |-> 0, budget |-> 0]

\* CustomerSegments.generateCustomer: an unknown segment type raises Error,
\* and an inherited key finds a function without generateCustomer (TypeError)
generateCustomer(segmentType, randoms) ==
    IF segmentType \in Segments
    THEN [status |-> "returned", customer |-> segmentGenerateCustomer(segmentType, randoms)]
    ELSE IF segmentType \in InheritedKeys
    THEN [status |-> "threw TypeError", customer |-> NoCustomer]
    ELSE [status |-> "threw Error", customer |-> NoCustomer]

SegmentTypes == Segments \cup {"tourist", "constructor"}

\* CustomerSegments.generateCustomer(segmentType)
GenerateCustomer(segmentType, randoms) ==
    /\ call = NoCall
    /\ call' = [kind |-> "generateCustomer", segmentType |-> segmentType,
                outcome |-> generateCustomer(segmentType, randoms)]
    /\ UNCHANGED <<nonModelVars, segmentWeights>>

KnownPositions == {"eye_level", "above_eye", "below_eye", "endcap", "register",
                   "entrance", "aisle_end", "shelf_edge"}
KnownPopTypes == {"discount", "limited", "character", "celebrity", "health",
                  "functional", "premium", "seasonal", "sharing", "gift"}

\* C14: no model entry point raises on an unknown lookup key, each resolves
\* to a default instead: an unknown POP type gives the baseline attention, an
\* unknown position label the position effect 0.8, an unknown segment the
\* type multiplier 1.0, an unknown weather, time of day or season the factor
\* 1.0, and generateCustomer returns for an unknown segment type.
C14_UnknownKeysResolveToDefaults ==
    /\ call.kind = "calculateBaseEffect" =>
          /\ call.popConfig.type \notin KnownPopTypes
                => call.result = Milli(baselineAttention)
          /\ call.popConfig.position \notin KnownPositions
                => call.positionEffect = Milli(800)
    /\ call.kind = "calculatePOPEffect" /\ call.customer.segment \notin Segments
          => call.typeMultiplier = 1000
    /\ call.kind = "apply" =>
          /\ call.environment.weather \in {"foggy", ""} => call.factors.weather = 1000
          /\ call.environment.timeOfDay = "dusk" => call.factors.timeOfDay = 1000
          /\ call.environment.season = "monsoon" => call.factors.season = 1000
    /\ call.kind = "generateCustomer" => call.outcome.status = "returned"

\* ------------------------------------------- DecisionModel: decision latency
\* Drift rates are tenths, thresholds and latencies thousandths.
Infinity == [infinite |-> TRUE, value |-> 0]
Finite(v) == [infinite |-> FALSE, value |-> v]

\* variance / meanTime is 1 / |driftRate|; shape is computed and not used
calculateDecisionTime(driftRate, threshold, random) ==
    IF driftRate = 0 THEN Infinity             \* Math.abs(driftRate) < 0.01
    ELSE LET meanTime == (threshold * 10) \div Abs(driftRate)
             scale == 10000 \div Abs(driftRate)
         IN  Finite(Max(100, meanTime + ((random - 500) * scale) \div 1000))

Seeds == {1, 2}
Thresholds == {100, 1000, 1450}

\* two runs of calculateDecisionTime(driftRate, threshold) after the caller
\* set up the same seed: the function takes no seed and draws from
\* Math.random, so each run has a draw of its own
RepeatDecisionTime(driftRate, threshold, seed, random1, random2) ==
    /\ call = NoCall
    /\ call' = [kind |-> "calculateDecisionTime", driftRate |-> driftRate,
                threshold |-> threshold, seed |-> seed,
                latency1 |-> calculateDecisionTime(driftRate, threshold, random1),
                latency2 |-> calculateDecisionTime(driftRate, threshold, random2)]
    /\ UNCHANGED <<nonModelVars, segmentWeights>>

\* C15: the random draws of the models come from a seedable source, so two
\* calls of calculateDecisionTime with the same drift rate, threshold and
\* seed return the same latency.
C15_SameSeedSameLatency ==
    call.kind = "calculateDecisionTime" => call.latency1 = call.latency2

\* ------------------------------------------------ PathFinder: node selection
\* node n is, among the nodes of the open list, one of least fCost, among
\* those one of least hCost, and among those the one inserted earliest (the
\* open list is kept in insertion order)
LeastOpenNode(n, open, g) ==
    \E i \in 1 .. Len(open) :
        /\ open[i] = n
        /\ \A j \in 1 .. Len(open) :
              /\ g[open[j]].fCost >= g[n].fCost
              /\ g[open[j]].fCost = g[n].fCost => g[open[j]].hCost >= g[n].hCost
              /\ (g[open[j]].fCost = g[n].fCost /\ g[open[j]].hCost = g[n].hCost)
                    => i <= j

\* the node an iteration of the loop takes out of the open list: the one it
\* adds to the closed set, or the end node when the iteration returns
TakenNode ==
    IF pc' = "search" THEN CHOOSE n \in closedSet' : n \notin closedSet
    ELSE endNode

\* A grid with three rows, the smallest on which two open nodes tie on
\* fCost and hCost: new PathFinder(GridW, TieGridH, 1) with obstacles set
\* and cleared in the middle column, which can be walled off entirely
TieGridH == 3

\* setObstacle without the cap on the number of obstacles
TieSetObstacle(x, y, walkable) ==
    /\ UNCHANGED nonPathVars
    /\ pc = "layout"
    /\ IF isValidCoordinate(x, y)
       THEN /\ grid' = [grid EXCEPT ![<<x, y>>].walkable = walkable]
            /\ obstacles' = IF ~walkable THEN obstacles \cup {<<x, y>>}
                            ELSE obstacles \ {<<x, y>>}
       ELSE UNCHANGED <<grid, obstacles>>
    /\ UNCHANGED <<gridWidth, gridHeight, cellSize, pc, openSet, closedSet,
                   startNode, endNode, query, result, dirty>>

TieInit ==
    /\ gridWidth = GridW
    /\ gridHeight = TieGridH
    /\ cellSize = Num(1)
    /\ PathFinderNew
    /\ trip = NoTrip
    /\ attn = NoAttn
    /\ decision = NoDecision
    /\ ModelsNew

TieNext ==
    \/ \E y \in 0 .. gridHeight - 1, w \in BOOLEAN : TieSetObstacle(gridWidth \div 2, y, w)
    \/ SetupAgents
    \/ \E startWorld \in QueryPoints, endWorld \in QueryPoints :
            FindPath(startWorld, endWorld)
    \/ SearchExhausted
    \/ SearchReachEnd
    \/ SearchExpand
    \/ TakeResult

TieSpec == TieInit /\ [][TieNext]_vars

\* C20: at every iteration of the A* loop the node taken out of the open set
\* has the least fCost of all open nodes, among those the least hCost, and
\* among nodes tied on both it is the one inserted earliest.
C20_TakesLeastFThenLeastHThenEarliest ==
    [][(pc = "search" /\ openSet # <<>>) => LeastOpenNode(TakenNode, openSet, grid)]_vars

\* an iteration is about to choose between two open nodes tied on fCost and
\* hCost, both of least fCost, after an earlier iteration has run
C20_Witness ==
    /\ pc = "search"
    /\ closedSet # {}
    /\ \E i, j \in 1 .. Len(openSet) :
          /\ i < j
          /\ LeastOpenNode(openSet[i], openSet, grid)
          /\ grid[openSet[j]].fCost = grid[openSet[i]].fCost
          /\ grid[openSet[j]].hCost = grid[openSet[i]].hCost

\* ------------------------------------------------- cost of the found chain
\* cost of one step between 8-adjacent cells: 10 orthogonal, 14 diagonal
StepCost(a, b) == IF a[1] = b[1] \/ a[2] = b[2] THEN 10 ELSE 14

RECURSIVE ChainCost(_)
ChainCost(cells) ==
    IF Len(cells) <= 1 THEN 0
    ELSE StepCost(cells[1], cells[2]) + ChainCost(Tail(cells))

\* least cost from one cell to every cell over walkable 8-connected cell
\* paths, by relaxation to a fixed point; -1 stands for no path
RECURSIVE LeastCosts(_)
LeastCosts(dist) ==
    LET via(c) == {dist[d] + StepCost(d, c) : d \in {e \in Cells : Adjacent8(e, c) /\ dist[e] >= 0}}
        cand(c) == via(c) \cup (IF dist[c] >= 0 THEN {dist[c]} ELSE {})
        next == [c \in Cells |->
                    IF Blocked(c) \/ cand(c) = {} THEN dist[c]
                    ELSE CHOOSE m \in cand(c) : \A k \in cand(c) : m <= k]
    IN  IF next = dist THEN dist ELSE LeastCosts(next)

LeastCost(a, b) == LeastCosts([c \in Cells |-> IF c = a THEN 0 ELSE -1])[b]

\* the loop is about to take the end node out of the open set (lines 120-133)
ReachingEnd == pc = "search" /\ openSet # <<>> /\ SelectNode(grid, openSet) = endNode

\* C21: when the search reaches the end node, the cells along the parent links
\* from the start to the end are walkable, consecutive ones are 8-adjacent, and
\* their total cost (10 per orthogonal, 14 per diagonal step) is the least over
\* all walkable 8-connected cell paths from the start to the end.
C21_ParentChainIsCheapest ==
    ReachingEnd =>
        LET cells == ParentChain(grid, endNode, startNode)
        IN  /\ cells[1] = startNode
            /\ cells[Len(cells)] = endNode
            /\ \A i \in 1 .. Len(cells) : ~Blocked(cells[i])
            /\ \A i \in 1 .. Len(cells) - 1 : Adjacent8(cells[i], cells[i + 1])
            /\ ChainCost(cells) = LeastCost(startNode, endNode)

\* the end is reached by a detour around an obstacle
C21_Witness ==
    /\ ReachingEnd
    /\ Len(ParentChain(grid, endNode, startNode)) >= 3
    /\ ChainCost(ParentChain(grid, endNode, startNode)) > getDistance(startNode, endNode)
    /\ ChainCost(ParentChain(grid, endNode, startNode)) = LeastCost(startNode, endNode)

\* ------------------------------------------------------ smoothing contract
\* the raw waypoints of the finished search: the parent chain, start first
RawPath ==
    LET cells == ParentChain(grid, QEnd, QStart)
    IN  [i \in 1 .. Len(cells) |-> Waypoint(cells[i])]

\* whether the cell stepping of lines 291-304 finds every stepped cell walkable
Visible(from, to) == LineOfSightWalk(grid, CellOf(from), CellOf(to))

\* after path[c] the farthest later waypoint visible from it, up to the last
RECURSIVE KeepFarthestVisible(_, _, _)
KeepFarthestVisible(path, c, kept) ==
    IF c >= Len(path) THEN kept
    ELSE LET seen == {i \in c + 1 .. Len(path) : Visible(path[c], path[i])}
             far == IF seen = {} THEN c + 1
                    ELSE CHOOSE i \in seen : \A j \in seen : j <= i
         IN  KeepFarthestVisible(path, far, Append(kept, path[far]))

\* C22: smoothPath keeps, after each kept waypoint, the farthest later raw
\* waypoint with an unobstructed line of sight from it, also past nearer
\* waypoints without one, until the last raw waypoint is included; the result
\* starts with the first and ends with the last raw waypoint.
C22_SmoothPathKeepsFarthestVisible ==
    (pc = "returned" /\ BothUsable /\ Reachable(QStart, QEnd) /\ Len(RawPath) > 2)
        => /\ result.status = "returned"
           /\ result.path = KeepFarthestVisible(RawPath, 1, <<RawPath[1]>>)
           /\ result.path[1] = RawPath[1]
           /\ result.path[Len(result.path)] = RawPath[Len(RawPath)]

\* ------------------------------------------------------------ termination
\* C23: findPath terminates: every iteration of the search loop takes a cell
\* that is not yet closed and closes it, so the loop performs at most
\* gridWidth x gridHeight iterations, and with no open cell left the call
\* returns.
C23_SearchTerminates ==
    /\ [](pc = "search" => \A i \in 1 .. Len(openSet) : openSet[i] \notin closedSet)
    /\ [][pc = "search"
            => IF openSet = <<>> THEN pc' = "returned"
               ELSE /\ pc' \in {"search", "returned"}
                    /\ pc' = "search" =>
                          /\ closedSet' = closedSet \cup {SelectNode(grid, openSet)}
                          /\ Cardinality(closedSet') <= gridWidth * gridHeight]_vars

\* the loop has run several iterations around an obstacle
C23_Witness ==
    /\ pc = "search"
    /\ Cardinality(closedSet) >= 3
    /\ obstacles # {}

\* ------------------------------------------- CustomerAgent and AgentManager
\* Lengths are in tenths of a world unit, times in tenths of a second, speeds
\* in tenths of a unit per second.  The modelled agents shop for the two items
\* whose shelves lie on the line x = 0, which also holds the entrance, the
\* register area and the exit: positions stay on that line, where the
\* normalisations dx / distance and dz / distance are exact.
MaxAgentCount == 2
MaxSpawnTimer == 30

Point(x, z) == [x |-> x, z |-> z]
NoTarget == [x |-> "null", z |-> "null"]

entrance == Point(0, -120)
registerArea == Point(0, -100)
exit == Point(0, -120)

snacks == [name |-> "snacks", position |-> Point(0, 80), price |-> 400]
condiments == [name |-> "condiments", position |-> Point(0, -80), price |-> 250]

\* generateShoppingList: a random selection in random order; here the
\* selections of two items that lie on the line x = 0
ShoppingLists == {<<snacks, condiments>>, <<condiments, snacks>>}

\* 1.5 + Math.random(): 1.5, 2.0 or 2.5 units per second
Speeds == {15, 20, 25}

\* tick deltas of 0.2 s, 0.6 s and 1 s
Deltas == {2, 6, 10}

\* the 40 x 40 grid of cell size 1 that main.js creates: worldToGrid
storeWorldToGrid(p) == [x |-> p.x \div 10 + 20, y |-> p.z \div 10 + 20]

storeGridToWorld(c) == Point((c.x - 20) * 10, (c.y - 20) * 10)

\* the obstacles setupPathfinding lays on column 20 of that grid: the border
\* walls, the five centre shelves and the register counters
storeWalkable(c) ==
    /\ ~(c.x < 2 \/ c.x >= 38 \/ c.y < 2 \/ c.y >= 38)
    /\ ~(c.x \in 18 .. 21 /\ c.y \in {12, 16, 20, 24, 28})
    /\ ~(c.x \in 17 .. 23 /\ c.y \in 9 .. 10)

\* findPath on the store grid between two points of the line x = 0, by its
\* outcome: [] for an endpoint outside the grid or blocked (97-105); the raw
\* path between the same or adjacent cells, which smoothPath returns as it is
\* (245); the TypeError of hasLineOfSight for every longer raw path (255, 285).
\* The walkable cells of the store floor are all connected.
storeFindPath(startWorld, endWorld) ==
    LET start == storeWorldToGrid(startWorld)
        end == storeWorldToGrid(endWorld)
        valid(c) == c.x >= 0 /\ c.x < 40 /\ c.y >= 0 /\ c.y < 40
    IN  IF ~valid(start) \/ ~valid(end) THEN Returned(<<>>)
        ELSE IF ~storeWalkable(start) \/ ~storeWalkable(end) THEN Returned(<<>>)
        ELSE IF start = end THEN Returned(<<storeGridToWorld(start)>>)
        ELSE IF Abs(start.x - end.x) <= 1 /\ Abs(start.y - end.y) <= 1
             THEN Returned(<<storeGridToWorld(start), storeGridToWorld(end)>>)
        ELSE Threw

\* A method that may raise works on a record of the agent, window.gameStats
\* and the flag threw; once threw is set the rest of the caller is skipped.
Running(agent, stats) == [agent |-> agent, stats |-> stats, threw |-> FALSE]

setState(agent, newState) == [agent EXCEPT !.state = newState]

moveTo(w, targetPosition) ==
    LET agent == [w.agent EXCEPT !.target = targetPosition]
        path == storeFindPath(w.agent.position, targetPosition)
    IN  IF path.status = "threw" THEN [w EXCEPT !.agent = agent, !.threw = TRUE]
        ELSE IF Len(path.path) > 0
             THEN [w EXCEPT !.agent = [agent EXCEPT !.path = path.path,
                                                    !.currentPathIndex = 0,
                                                    !.isWalking = TRUE]]
             ELSE [w EXCEPT !.agent = [agent EXCEPT !.path = <<targetPosition>>,
                                                    !.currentPathIndex = 0,
                                                    !.isWalking = TRUE]]

\* remove: the meshes leave the scene; the state field is not touched
remove(w) == [w EXCEPT !.stats.activeCustomers = @ - 1]

\* mutant: the agent queues one item early
planNextDestinationEarlyQueue(w) ==
    CASE w.agent.state = "shopping" ->
            IF w.agent.currentShopItem + 1 < Len(w.agent.shoppingList)
            THEN moveTo(w, w.agent.shoppingList[w.agent.currentShopItem + 1].position)
            ELSE moveTo([w EXCEPT !.agent = setState(w.agent, "queuing")], registerArea)
      [] w.agent.state = "queuing" ->
            [w EXCEPT !.agent = setState(w.agent, "purchasing")]
      [] w.agent.state = "purchasing" ->
            moveTo([w EXCEPT !.agent = setState(w.agent, "leaving")], exit)
      [] w.agent.state = "leaving" -> remove(w)
      [] OTHER -> w

planNextDestination(w) ==
    CASE w.agent.state = "shopping" ->
            IF w.agent.currentShopItem < Len(w.agent.shoppingList)
            THEN moveTo(w, w.agent.shoppingList[w.agent.currentShopItem + 1].position)
            ELSE moveTo([w EXCEPT !.agent = setState(w.agent, "queuing")], registerArea)
      [] w.agent.state = "queuing" ->
            [w EXCEPT !.agent = setState(w.agent, "purchasing")]
      [] w.agent.state = "purchasing" ->
            moveTo([w EXCEPT !.agent = setState(w.agent, "leaving")], exit)
      [] w.agent.state = "leaving" -> remove(w)
      [] OTHER -> w

\* enterStore, the last call of the constructor
enterStore(w) ==
    planNextDestination(
        [w EXCEPT !.agent = setState([w.agent EXCEPT !.position = entrance], "shopping")])

\* new CustomerAgent(scene, pathFinder, id) with its two random draws; the id
\* only appears in log lines
CustomerAgentNew(stats, speed, shoppingList) ==
    enterStore(Running(
        [position |-> Point(0, 0), target |-> NoTarget, path |-> <<>>,
         currentPathIndex |-> 0, speed |-> speed, state |-> "entering",
         shoppingList |-> shoppingList, currentShopItem |-> 0, cart |-> <<>>,
         totalSpent |-> 0, waitTime |-> 0, isWalking |-> FALSE], stats))

onReachedDestination(agent) ==
    [agent EXCEPT !.isWalking = FALSE, !.path = <<>>, !.currentPathIndex = 0]

\* Math.sqrt(dx * dx + dz * dz), exact for the points of one line
distanceOf(dx, dz) == CHOOSE d \in 0 .. Abs(dx) + Abs(dz) : d * d = dx * dx + dz * dz

updateMovement(agent, deltaTime) ==
    IF Len(agent.path) = 0 \/ agent.currentPathIndex >= Len(agent.path)
    THEN [agent EXCEPT !.isWalking = FALSE]
    ELSE LET currentTarget == agent.path[agent.currentPathIndex + 1]
             dx == currentTarget.x - agent.position.x
             dz == currentTarget.z - agent.position.z
             distance == distanceOf(dx, dz)
             moveDistance == (agent.speed * deltaTime) \div 10
         IN  IF distance < 5
             THEN IF agent.currentPathIndex + 1 >= Len(agent.path)
                  THEN onReachedDestination(agent)
                  ELSE [agent EXCEPT !.currentPathIndex = @ + 1]
             ELSE [agent EXCEPT !.position =
                        Point(@.x + (dx * moveDistance) \div distance,
                              @.z + (dz * moveDistance) \div distance)]

\* mutant: the item is not put into the cart
collectItemSkipped(agent) == agent

collectItem(agent) ==
    IF agent.currentShopItem < Len(agent.shoppingList)
    THEN [agent EXCEPT !.cart = Append(@, agent.shoppingList[agent.currentShopItem + 1])]
    ELSE agent

PriceSum(cart) == SumSeq([i \in 1 .. Len(cart) |-> cart[i].price])

completePurchase(w) ==
    LET total == PriceSum(w.agent.cart)
    IN  [w EXCEPT !.agent.totalSpent = total,
                  !.stats.totalSales = @ + total,
                  !.stats.completedCustomers = @ + 1]

\* waitTime >= base + Math.random() * spread, in seconds; random in thousandths
Waited(waitTime, base, spread, random) ==
    waitTime * 1000 >= base * 10000 + random * spread * 10

updateBehavior(w, deltaTime, random) ==
    LET waited == [w EXCEPT !.agent.waitTime = @ + deltaTime]
    IN  CASE w.agent.state = "shopping" ->
                IF w.agent.isWalking THEN w
                ELSE IF Waited(waited.agent.waitTime, 2, 3, random)
                     THEN planNextDestination(
                            [w EXCEPT !.agent = [collectItem(w.agent) EXCEPT
                                                    !.waitTime = 0,
                                                    !.currentShopItem = @ + 1]])
                     ELSE waited
          [] w.agent.state = "queuing" ->
                IF Waited(waited.agent.waitTime, 5, 10, random)
                THEN LET planned == planNextDestination(waited)
                     IN  [planned EXCEPT !.agent.waitTime = 0]
                ELSE waited
          [] w.agent.state = "purchasing" ->
                IF Waited(waited.agent.waitTime, 3, 2, random)
                THEN planNextDestination(
                        [completePurchase(waited) EXCEPT !.agent.waitTime = 0])
                ELSE waited
          [] OTHER -> w

\* CustomerAgent.update; the mesh exists from the constructor on and
\* updateAnimation only moves meshes
update(w, deltaTime, random) ==
    updateBehavior([w EXCEPT !.agent = updateMovement(w.agent, deltaTime)],
                   deltaTime, random)

RemoveAt(s, i) == [j \in 1 .. Len(s) - 1 |-> IF j < i THEN s[j] ELSE s[j + 1]]

\* lines 413-415 for the updated agent w.agent at index i
spliceRemoved(agents, w, i) ==
    IF w.agent.state = "removed" THEN RemoveAt(agents, i)
    ELSE [agents EXCEPT ![i] = w.agent]

\* lines 408-416: the loop over the agents, last to first; an exception of
\* an agent's update ends the loop and the manager's update
RECURSIVE updateAgents(_, _, _, _, _)
loopStep(agents, w, i, scaledDelta, randoms) ==
    IF w.threw
    THEN [agents |-> [agents EXCEPT ![i] = w.agent], stats |-> w.stats, threw |-> TRUE]
    ELSE updateAgents(spliceRemoved(agents, w, i), w.stats, i - 1, scaledDelta, randoms)

updateAgents(agents, stats, i, scaledDelta, randoms) ==
    IF i = 0 THEN [agents |-> agents, stats |-> stats, threw |-> FALSE]
    ELSE loopStep(agents, update(Running(agents[i], stats), scaledDelta, randoms[i]),
                  i, scaledDelta, randoms)

\* lines 426-429
refreshStats(stats, agents) ==
    [stats EXCEPT
        !.activeCustomers = Cardinality({i \in 1 .. Len(agents) : agents[i].state # "leaving"}),
        !.queueLength = Cardinality({i \in 1 .. Len(agents) : agents[i].state = "queuing"})]

\* spawnAgent with the outcome of the constructor, and line 422
spawnAgent(m, spawned) ==
    IF spawned.threw THEN [manager |-> m, stats |-> spawned.stats, threw |-> TRUE]
    ELSE [manager |-> [m EXCEPT !.agents = Append(@, spawned.agent), !.spawnTimer = 0],
          stats |-> [spawned.stats EXCEPT !.activeCustomers = @ + 1],
          threw |-> FALSE]

\* mutant: the population is not compared with maxAgents
spawnWhenDueUncapped(m, stats, speed, shoppingList) ==
    IF m.spawnTimer >= m.spawnInterval
    THEN spawnAgent(m, CustomerAgentNew(stats, speed, shoppingList))
    ELSE [manager |-> m, stats |-> stats, threw |-> FALSE]

\* lines 419-423, m.spawnTimer being the advanced timer
spawnWhenDue(m, stats, speed, shoppingList) ==
    IF m.spawnTimer >= m.spawnInterval /\ Len(m.agents) < m.maxAgents
    THEN spawnAgent(m, CustomerAgentNew(stats, speed, shoppingList))
    ELSE [manager |-> m, stats |-> stats, threw |-> FALSE]

\* lines 426-429, reached when nothing raised
withStats(after) ==
    IF after.threw THEN after
    ELSE [after EXCEPT !.stats = refreshStats(@, after.manager.agents)]

\* lines 418-429 for the outcome of the loop over the agents.  The spawn
\* timer only matters up to spawnInterval and is kept at MaxSpawnTimer beyond.
afterLoop(m, looped, scaledDelta, speed, shoppingList) ==
    IF looped.threw THEN [manager |-> [m EXCEPT !.agents = looped.agents],
                          stats |-> looped.stats, threw |-> TRUE]
    ELSE withStats(
            spawnWhenDue([m EXCEPT !.agents = looped.agents,
                                   !.spawnTimer = Min(@ + scaledDelta, MaxSpawnTimer)],
                         looped.stats, speed, shoppingList))

\* AgentManager.update(deltaTime, simulationSpeed) as the pair of the manager
\* and window.gameStats it leaves
managerUpdate(m, stats, scaledDelta, randoms, speed, shoppingList) ==
    afterLoop(m, updateAgents(m.agents, stats, Len(m.agents), scaledDelta, randoms),
              scaledDelta, speed, shoppingList)

Becomes(after) ==
    /\ manager' = after.manager
    /\ gameStats' = after.stats

\* one frame of main.js: agentManager.update(deltaTime, simulationSpeed)
Update(randoms, speed, shoppingList) ==
    /\ manager.maxAgents <= MaxAgentCount
    /\ Becomes(managerUpdate(manager, gameStats, tickDelta, randoms, speed, shoppingList))
    /\ UNCHANGED <<nonAgentVars, tickDelta>>

\* the agent-count slider: setMaxAgents(count)
SetMaxAgents(count) ==
    /\ manager' = [manager EXCEPT !.maxAgents = count]
    /\ UNCHANGED <<nonAgentVars, gameStats, tickDelta>>

\* one agent in the store: the slider is set to 1, any tick delta and speed
AgentInit ==
    /\ gridWidth = GridW
    /\ gridHeight = GridH
    /\ cellSize = Num(1)
    /\ PathFinderNew
    /\ trip = NoTrip
    /\ attn = NoAttn
    /\ decision = NoDecision
    /\ call = NoCall
    /\ CustomerSegmentsNew
    /\ AgentManagerNew
    /\ tickDelta \in Deltas

AgentNext ==
    \/ SetMaxAgents(1)
    \/ \E randoms \in [1 .. Len(manager.agents) -> Draws], speed \in Speeds,
          shoppingList \in ShoppingLists :
            Update(randoms, speed, shoppingList)

AgentSpec == AgentInit /\ [][AgentNext]_vars

\* up to MaxAgentCount agents at a tick delta of one second and speed 2.0
ManagerInit ==
    /\ gridWidth = GridW
    /\ gridHeight = GridH
    /\ cellSize = Num(1)
    /\ PathFinderNew
    /\ trip = NoTrip
    /\ attn = NoAttn
    /\ decision = NoDecision
    /\ call = NoCall
    /\ CustomerSegmentsNew
    /\ AgentManagerNew
    /\ tickDelta = 10

ManagerNext ==
    \/ \E count \in 1 .. MaxAgentCount : SetMaxAgents(count)
    \/ \E randoms \in [1 .. Len(manager.agents) -> Draws],
          shoppingList \in ShoppingLists :
            Update(randoms, 20, shoppingList)

ManagerSpec == ManagerInit /\ [][ManagerNext]_vars

\* ------------------------------------------------- C24: finished agents
Near(position, target) ==
    Abs(position.x - target.x) + Abs(position.z - target.z) < 5

\* the agent at index i has reached state 'leaving' and walked to the exit
FinishedAt(i) ==
    /\ i \in 1 .. Len(manager.agents)
    /\ manager.agents[i].state = "leaving"
    /\ ~manager.agents[i].isWalking
    /\ Near(manager.agents[i].position, exit)

\* the agent list that AgentManager.update leaves for the given draws
AgentsAfterUpdate(randoms, speed, shoppingList) ==
    managerUpdate(manager, gameStats, tickDelta, randoms, speed, shoppingList).manager.agents

\* some update deletes an agent or changes the agent at index i
UpdateTouches(i) ==
    \E randoms \in [1 .. Len(manager.agents) -> Draws], speed \in Speeds,
       shoppingList \in ShoppingLists :
        \/ Len(AgentsAfterUpdate(randoms, speed, shoppingList)) < Len(manager.agents)
        \/ AgentsAfterUpdate(randoms, speed, shoppingList)[i] # manager.agents[i]

\* C24: every agent that has finished (state 'leaving', walked to the exit)
\* is eventually deleted from AgentManager.agents by a later update, so the
\* number of managed agents drops below maxAgents again and spawning goes on.
\* An update depends on nothing but the agents, the tick delta and the draws,
\* so the deletion needs a finished agent that some update still deletes or
\* changes.  The code has none: updateBehavior has no case for 'leaving'
\* (252-280), so planNextDestination and remove are never called for it, and
\* nothing assigns the state 'removed' that update tests at line 413.
C24_FinishedAgentIsRemoved ==
    \A i \in 1 .. Len(manager.agents) : FinishedAt(i) => UpdateTouches(i)

\* what the code does instead: the agent list never shrinks
C24_AgentsNeverLeave ==
    [][Len(manager.agents') >= Len(manager.agents)]_vars

\* ------------------------------------------------------ C25: moveTo
\* the route the two branches of moveTo assign (185-194) for what findPath
\* returns
RouteTo(position, target) ==
    IF storeFindPath(position, target).status = "returned"
       /\ Len(storeFindPath(position, target).path) > 0
    THEN storeFindPath(position, target).path
    ELSE <<target>>

\* moveTo ran for the agent at index i in this step: the agent is new or its
\* target changed (successive targets of an agent differ)
MovedTo(i) ==
    /\ i \in 1 .. Len(manager.agents')
    /\ \/ i > Len(manager.agents)
       \/ manager.agents'[i].target # manager.agents[i].target

HasRoute(agent) ==
    /\ agent.path = RouteTo(agent.position, agent.target)
    /\ agent.currentPathIndex = 0
    /\ agent.isWalking

\* C25: moveTo never leaves the agent without a route: after it the path is
\* what findPath returned if that is not empty and [target] otherwise, with
\* currentPathIndex 0 and isWalking true.
\* The code refutes it: findPath raises the TypeError of hasLineOfSight for
\* two walkable cells that are not adjacent, after moveTo assigned the target
\* (182) and before it assigns the path.
C25_MoveToLeavesARoute ==
    [][\A i \in 1 .. Len(manager.agents') :
            MovedTo(i) => HasRoute(manager.agents'[i])]_vars

\* what the code does: the route is assigned whenever findPath returns
C25_RouteWhenFindPathReturns ==
    [][\A i \in 1 .. Len(manager.agents') :
            /\ MovedTo(i)
            /\ storeFindPath(manager.agents'[i].position,
                             manager.agents'[i].target).status = "returned"
            => HasRoute(manager.agents'[i])]_vars

\* ------------------------------------------------ C26: order of states
StateOrder ==
    {<<"shopping", "queuing">>, <<"queuing", "purchasing">>,
     <<"purchasing", "leaving">>}

\* the agents that went from state from to state to in this step
Transitions(from, to) ==
    {i \in 1 .. Len(manager.agents) :
        manager.agents[i].state = from /\ manager.agents'[i].state = to}

\* C26: an agent's state only changes along shopping -> queuing ->
\* purchasing -> leaving, one state at a time and never back; it starts in
\* 'shopping'; 'queuing' is entered only when currentShopItem has reached the
\* length of the shopping list; completePurchase runs exactly at the
\* purchasing -> leaving transition, which, the order being strict, an agent
\* makes at most once.
C26_StatesFollowTheOrder ==
    [][/\ Len(manager.agents') >= Len(manager.agents)
       /\ \A i \in 1 .. Len(manager.agents') :
            IF i > Len(manager.agents)
            THEN manager.agents'[i].state = "shopping"
            ELSE /\ \/ manager.agents'[i].state = manager.agents[i].state
                    \/ <<manager.agents[i].state, manager.agents'[i].state>> \in StateOrder
                 /\ i \in Transitions("shopping", "queuing")
                        => manager.agents'[i].currentShopItem
                                = Len(manager.agents'[i].shoppingList)
                 /\ manager.agents'[i].totalSpent # manager.agents[i].totalSpent
                        => i \in Transitions("purchasing", "leaving")
       /\ gameStats'.completedCustomers
            = gameStats.completedCustomers
                + Cardinality(Transitions("purchasing", "leaving"))]_vars

\* an agent has gone through all four states and paid once
C26_Witness ==
    \E i \in 1 .. Len(manager.agents) :
        /\ manager.agents[i].state = "leaving"
        /\ manager.agents[i].currentShopItem = Len(manager.agents[i].shoppingList)
        /\ manager.agents[i].totalSpent > 0
        /\ gameStats.completedCustomers >= 1

\* ------------------------------------------- C27: purchase at the checkout
\* the agent has arrived at the register position it was sent to
AtCheckout(agent) ==
    /\ ~agent.isWalking
    /\ Near(agent.position, registerArea)

\* C27: an agent enters state 'purchasing', and later runs completePurchase,
\* only after it has arrived at the checkout: isWalking is false and its
\* position is within 0.5 of the register position.
\* The code refutes it: the 'queuing' case of updateBehavior (264-270) counts
\* waitTime from the moment the agent is sent to the register and does not
\* test isWalking, unlike the 'shopping' case (254).
C27_PurchaseOnlyAtCheckout ==
    [][/\ \A i \in Transitions("queuing", "purchasing") :
                AtCheckout(manager.agents'[i])
       /\ \A i \in Transitions("purchasing", "leaving") :
                Near(manager.agents'[i].position, registerArea)]_vars

\* ------------------------------------------------ C28: population cap
\* C28: unless setMaxAgents lowers the limit, the number of agents never
\* exceeds maxAgents: a step that starts within the limit and does not lower
\* it ends within the limit; a step adds at most one agent, only when the
\* advanced spawnTimer has reached spawnInterval and agents.length is below
\* maxAgents, and the spawn resets spawnTimer to 0.
C28_PopulationWithinMaxAgents ==
    [][/\ Len(manager.agents) <= manager.maxAgents
            /\ manager'.maxAgents >= manager.maxAgents
            => Len(manager'.agents) <= manager'.maxAgents
       /\ Len(manager'.agents) <= Len(manager.agents) + 1
       /\ Len(manager'.agents) > Len(manager.agents)
            => /\ manager.spawnTimer + tickDelta >= manager.spawnInterval
               /\ Len(manager.agents) < manager.maxAgents
               /\ manager'.spawnTimer = 0]_vars

\* the spawn timer is due and the store is full: no agent is added
C28_Witness ==
    /\ Len(manager.agents) = MaxAgentCount
    /\ manager.maxAgents = MaxAgentCount
    /\ manager.spawnTimer >= manager.spawnInterval

\* ------------------------------------------------------ C29: the cart
\* C29: after every update an agent's cart is the first currentShopItem
\* entries of its shopping list, with currentShopItem at most the length of
\* the list; when completePurchase runs the cart is therefore the whole list,
\* totalSpent becomes the sum of its prices, and totalSales grows by the
\* totalSpent of the agents that paid in the step while completedCustomers
\* grows by one for each of them.
C29_CartIsPrefixOfShoppingList ==
    /\ [](\A i \in 1 .. Len(manager.agents) :
            /\ manager.agents[i].currentShopItem <= Len(manager.agents[i].shoppingList)
            /\ manager.agents[i].cart
                = SubSeq(manager.agents[i].shoppingList, 1,
                         manager.agents[i].currentShopItem))
    /\ [][/\ \A i \in Transitions("purchasing", "leaving") :
                /\ manager.agents'[i].cart = manager.agents'[i].shoppingList
                /\ manager.agents'[i].totalSpent
                        = PriceSum(manager.agents'[i].shoppingList)
          /\ gameStats'.totalSales - gameStats.totalSales
                = SumSeq([i \in 1 .. Len(manager.agents) |->
                            IF i \in Transitions("purchasing", "leaving")
                            THEN manager.agents'[i].totalSpent ELSE 0])
          /\ gameStats'.completedCustomers - gameStats.completedCustomers
                = Cardinality(Transitions("purchasing", "leaving"))]_vars

\* an agent has paid for its whole list and the sale is booked
C29_Witness ==
    \E i \in 1 .. Len(manager.agents) :
        /\ manager.agents[i].state = "leaving"
        /\ manager.agents[i].cart = manager.agents[i].shoppingList
        /\ manager.agents[i].totalSpent = PriceSum(manager.agents[i].shoppingList)
        /\ gameStats.totalSales >= manager.agents[i].totalSpent
        /\ gameStats.totalSales > 0

\* --------------------------------------------------- C30: arrival
\* the agent is on its way to the waypoint path[currentPathIndex]
Walking(agent) ==
    agent.isWalking /\ agent.currentPathIndex < Len(agent.path)

\* updateMovement has counted the waypoint as reached: currentPathIndex
\* advanced (224) or onReachedDestination emptied the path (225-226)
ReachedWaypoint(agent, moved) ==
    moved.path # agent.path \/ moved.currentPathIndex # agent.currentPathIndex

\* Repeated updateMovement steps at the tick delta deltaTime reach the
\* waypoint.  The step is a function of the position alone, so the walk fails
\* to arrive exactly when it comes back to a position it has been at.
RECURSIVE ArrivesFrom(_, _, _)
ArrivesFrom(agent, deltaTime, visited) ==
    IF ReachedWaypoint(agent, updateMovement(agent, deltaTime)) THEN TRUE
    ELSE IF updateMovement(agent, deltaTime).position \in visited THEN FALSE
    ELSE ArrivesFrom(updateMovement(agent, deltaTime), deltaTime,
                     visited \cup {updateMovement(agent, deltaTime).position})

\* C30: under a fixed tick delta an agent walking toward its waypoint always
\* arrives: repeated updateMovement steps bring it within the arrival radius
\* of 0.5, however large speed x deltaTime is.
\* The code refutes it: the step is not clamped to the remaining distance
\* (230-236), so a step of 1 or more can jump over the whole arrival disc,
\* and the agent then swings around the waypoint forever.
C30_WalkingAgentArrives ==
    \A i \in 1 .. Len(manager.agents) :
        Walking(manager.agents[i])
            => ArrivesFrom(manager.agents[i], tickDelta, {manager.agents[i].position})

\* what the code guarantees: a step shorter than the diameter of the arrival
\* disc cannot jump over it
C30_ShortStepsArrive ==
    \A i \in 1 .. Len(manager.agents) :
        Walking(manager.agents[i]) /\ manager.agents[i].speed * tickDelta < 100
            => ArrivesFrom(manager.agents[i], tickDelta, {manager.agents[i].position})

ModelNext ==
    \/ \E item \in PurchaseItems, customer \in PurchaseCustomers,
          alternatives \in AlternativeLists :
            CalculatePurchaseProbability(item, customer, alternatives)
    \/ \E customer \in QueueCustomers, queueLength \in 0 .. MaxQueue :
            CalculateOverallExitProbability(customer, [queueLength |-> queueLength])
    \/ \E product \in PopProducts, popConfig \in PopConfigs, customer \in PopCustomers :
            CalculateBaseEffect(product, popConfig, customer)
    \/ \E baseEffect \in {300, 1000}, environment \in Environments,
          customer \in EnvCustomers :
            Apply(baseEffect, environment, customer)
    \/ \E product \in PopProducts, popConfig \in DisplayConfigs,
          customer \in PopCustomers, environment \in CurrentEnvironments :
            CalculatePOPInteraction(product, popConfig, customer, environment)
    \/ \E segmentType \in SegmentTypes, randoms \in [1 .. 3 -> Draws] :
            GenerateCustomer(segmentType, randoms)
    \/ \E driftRate \in DriftRates, threshold \in Thresholds, seed \in Seeds,
          random1 \in Draws, random2 \in Draws :
            RepeatDecisionTime(driftRate, threshold, seed, random1, random2)
    \/ DropCall

ModelSpec == ModelInit /\ [][ModelNext]_vars

====
